---- MODULE Spec2Model ----
(***************************************************************************)
(* FoodEasy backend: the OTP credential store of                           *)
(* app/services/twilio_otp_service.py, the bearer-token gate of            *)
(* app/dependencies/auth.py with the routes that take a path user_id, and  *)
(* the cooks of app/services/cook_service.py.                              *)
(*                                                                         *)
(* Strings are sequences of one-character strings, so that str.strip() and *)
(* str.split() are computed and not assumed.  The clock is a natural       *)
(* number of seconds; a call reads it each time the code calls             *)
(* time.time(), and it may have advanced between two reads.                *)
(*                                                                         *)
(* Scheduling: request handlers run on one thread and give way only where  *)
(* they wait on the network.  verify_otp never waits, so it is one step;   *)
(* send_otp is two steps, its store write and its wait on the gateway.     *)
(* SpecThreads and SpecVerifiers run the same calls on parallel threads,   *)
(* one step for each access to the store.                                  *)
(*                                                                         *)
(* Spec, SpecTwice, SpecRetry, SpecSolo, SpecSweep, SpecCalls and          *)
(* SpecDelivery are the OTP store with one part of the call history each;  *)
(* SpecGate is the token gate and the routes; SpecCook is the cook         *)
(* service; SpecData is the reference data of app/routes/onboarding.py;    *)
(* SpecGrocery is the grouping of the groceries of app/routes/grocery.py.  *)
(***************************************************************************)
EXTENDS Naturals, Sequences, FiniteSets, TLC

(***************************************************************************)
(* Bounds of the model.                                                    *)
(***************************************************************************)
\* the clock runs from 0 to MaxTime
MaxTime == 3
\* secrets.choice draws are sampled from the digits 0..MaxDigit
MaxDigit == 1
\* the count of failed attempts kept in the call history saturates here
MaxWrong == 2
\* the ids that the database gives to cooks run from 1 to MaxCooks
MaxCooks == 2
\* the rows that the junction table answers for one meal plan: at most
MaxJunction == 3

(***************************************************************************)
(* Program constants.                                                      *)
(***************************************************************************)
OTP_LENGTH == 6
\* int(os.getenv("OTP_TTL_SECONDS", "600")): the configured value, scaled
OTP_TTL_SECONDS == 2

\* the phone numbers (subjects) of the callers
Subjects == {"+1555", "+9199"}

DigitChars == <<"0", "1", "2", "3", "4", "5", "6", "7", "8", "9">>
Whitespace == {" ", "\t", "\n"}

VARIABLES
    now,        \* time.time()
    otp_store,  \* _otp_store: a set of entries [phone, code, expires_at]
    sending,    \* subjects whose send_otp has written the store and is at the gateway
    env,        \* the module-level configuration read from the environment
    delivery,   \* history: how the last send_otp of watch ended
    follow,     \* history: which part of the history this run keeps
    watch,      \* history: the subject whose calls the history follows
    last,       \* history: the last store operation, its arguments and result
    issued,     \* history: what the calls made so far have issued to watch
    solo,       \* history: the store of the run in which only watch's calls are made
    accounts,   \* Account Directory: the user ids that resolve
    req,        \* history: the last HTTP request and its response
    cooks,      \* the rows of the table cooks
    cook_call,  \* history: the last call of cook_service, its arguments and result
    fetches,    \* GET /onboarding in progress: the state of its table fetches
    reply,      \* history: the last request for reference data and its response
    threads     \* the calls of the OTP service that run on parallel threads

vars ==
    <<now, otp_store, sending, env, delivery, follow, watch, last, issued, solo, accounts, req,
      cooks, cook_call, fetches, reply, threads>>
otpVars == <<now, otp_store, sending, env, delivery, follow, watch, last, issued, solo>>
gateVars == <<accounts, req>>
dataVars == <<fetches, reply>>
cookVars == <<cooks, cook_call>>
threadVars == <<threads>>

(***************************************************************************)
(* Python's dict, as the set of its items.                                 *)
(***************************************************************************)
HasKey(store, p) == \E r \in store : r.phone = p
Entry(store, p) == CHOOSE r \in store : r.phone = p
\* del d[p] that empties the dict
DelItemClear(store, p) == {}
DelItem(store, p) == {r \in store : r.phone # p}
\* d[p] = v that adds an item and keeps the one already under p
SetItemAppend(store, p, code, expires_at) ==
    store \cup {[phone |-> p, code |-> code, expires_at |-> expires_at]}
SetItem(store, p, code, expires_at) ==
    DelItem(store, p) \cup {[phone |-> p, code |-> code, expires_at |-> expires_at]}

(***************************************************************************)
(* str.strip()                                                             *)
(***************************************************************************)
RECURSIVE lstrip(_)
lstrip(s) ==
    IF s = <<>> THEN s
    ELSE IF Head(s) \in Whitespace THEN lstrip(Tail(s)) ELSE s

RECURSIVE rstrip(_)
rstrip(s) ==
    IF s = <<>> THEN s
    ELSE IF s[Len(s)] \in Whitespace THEN rstrip(SubSeq(s, 1, Len(s) - 1)) ELSE s

strip(s) == rstrip(lstrip(s))

(***************************************************************************)
(* _generate_otp: OTP_LENGTH draws of secrets.choice("0123456789").  The   *)
(* sample keeps the codes whose draws all gave the same digit.             *)
(***************************************************************************)
generate_otp == {[i \in 1..OTP_LENGTH |-> DigitChars[d + 1]] : d \in 0..MaxDigit}

\* what a client may submit: a code, a code padded with whitespace, nothing
Candidates ==
    generate_otp
    \cup {<<" ">> \o c \o <<"\n">> : c \in generate_otp}
    \cup {<<>>, <<" ">>}

\* a sweep that removes nothing
clean_expired_never(store, t) == store

\* a sweep that keeps the entries that expire at the very reading of the clock
clean_expired_strict(store, t) == {r \in store : r.expires_at >= t}

(***************************************************************************)
(* _clean_expired, with the clock reading t of its time.time().            *)
(***************************************************************************)
clean_expired(store, t) ==
    LET expired == {r.phone : r \in {v \in store : v.expires_at <= t}}
    IN  {r \in store : r.phone \notin expired}

(***************************************************************************)
(* send_otp, lines 127-130: sweep at t0, then write the new entry with     *)
(* expires_at = t1 + OTP_TTL_SECONDS, t1 the second clock reading.         *)
(***************************************************************************)
\* an expiry one second late
send_otp_store_late(store, p, code, t0, t1) ==
    SetItem(clean_expired(store, t0), p, code, t1 + OTP_TTL_SECONDS + 1)
\* an issuance that keeps the live entry of p instead of replacing it
send_otp_store_keep(store, p, code, t0, t1) ==
    IF HasKey(clean_expired(store, t0), p) THEN clean_expired(store, t0)
    ELSE SetItem(clean_expired(store, t0), p, code, t1 + OTP_TTL_SECONDS)
\* an issuance that leaves its store write for after the gateway call
send_otp_store_deferred(store, p, code, t0, t1) == clean_expired(store, t0)
send_otp_store(store, p, code, t0, t1) ==
    SetItem(clean_expired(store, t0), p, code, t1 + OTP_TTL_SECONDS)

(***************************************************************************)
(* verify_otp: sweep at t0, lookup, expiry check at t1, comparison with    *)
(* the stripped candidate, deletion on success.                            *)
(***************************************************************************)
\* a verification that leaves the entry in place on success
verify_otp_reusable(store, p, cand, t0, t1) ==
    LET swept == clean_expired(store, t0) IN
    IF ~HasKey(swept, p)
      THEN [store |-> swept, result |-> FALSE, why |-> "none"]
    ELSE IF Entry(swept, p).expires_at <= t1
      THEN [store |-> DelItem(swept, p), result |-> FALSE, why |-> "expired"]
    ELSE IF Entry(swept, p).code # strip(cand)
      THEN [store |-> swept, result |-> FALSE, why |-> "invalid"]
    ELSE [store |-> swept, result |-> TRUE, why |-> "approved"]
\* a verification that accepts the code of any subject's entry
verify_otp_anyone(store, p, cand, t0, t1) ==
    LET swept == clean_expired(store, t0) IN
    IF \E r \in swept : r.expires_at > t1 /\ r.code = strip(cand)
      THEN [store |-> DelItem(swept, p), result |-> TRUE, why |-> "approved"]
      ELSE [store |-> swept, result |-> FALSE, why |-> "invalid"]
\* a verification that drops the entry on a wrong code
verify_otp_burn(store, p, cand, t0, t1) ==
    LET swept == clean_expired(store, t0) IN
    IF ~HasKey(swept, p)
      THEN [store |-> swept, result |-> FALSE, why |-> "none"]
    ELSE IF Entry(swept, p).expires_at <= t1
      THEN [store |-> DelItem(swept, p), result |-> FALSE, why |-> "expired"]
    ELSE IF Entry(swept, p).code # strip(cand)
      THEN [store |-> DelItem(swept, p), result |-> FALSE, why |-> "invalid"]
    ELSE [store |-> DelItem(swept, p), result |-> TRUE, why |-> "approved"]
\* a verification that compares the candidate as it was given
verify_otp_exact(store, p, cand, t0, t1) ==
    LET swept == clean_expired(store, t0) IN
    IF ~HasKey(swept, p)
      THEN [store |-> swept, result |-> FALSE, why |-> "none"]
    ELSE IF Entry(swept, p).expires_at <= t1
      THEN [store |-> DelItem(swept, p), result |-> FALSE, why |-> "expired"]
    ELSE IF Entry(swept, p).code # cand
      THEN [store |-> swept, result |-> FALSE, why |-> "invalid"]
    ELSE [store |-> DelItem(swept, p), result |-> TRUE, why |-> "approved"]
verify_otp(store, p, cand, t0, t1) ==
    LET swept == clean_expired(store, t0) IN
    IF ~HasKey(swept, p)
      THEN [store |-> swept, result |-> FALSE, why |-> "none"]
    ELSE IF Entry(swept, p).expires_at <= t1
      THEN [store |-> DelItem(swept, p), result |-> FALSE, why |-> "expired"]
    ELSE IF Entry(swept, p).code # strip(cand)
      THEN [store |-> swept, result |-> FALSE, why |-> "invalid"]
    ELSE [store |-> DelItem(swept, p), result |-> TRUE, why |-> "approved"]

\* how a send_otp ended, with the posts to the Slack webhook and the calls of
\* client.messages.create that it made
Dispatched(outcome, slack_posts, gateway_calls) ==
    [outcome |-> outcome, slack_posts |-> slack_posts, gateway_calls |-> gateway_calls]

NotDispatched == Dispatched("none", 0, 0)

\* a send_otp that calls the gateway a second time when it raised, and
\* returns as if the message was sent
send_otp_dispatch_retry(e, gw) ==
    IF ~e.credentials THEN Dispatched("ValueError: credentials", 0, 0)
    ELSE IF ~e.from_number THEN Dispatched("ValueError: phone number", 0, 0)
    ELSE IF e.content_sid = "invalid" THEN Dispatched("ValueError: content sid", 0, 0)
    ELSE IF gw = "raises" THEN Dispatched("sent", IF e.slack THEN 1 ELSE 0, 2)
    ELSE Dispatched("sent", IF e.slack THEN 1 ELSE 0, 1)

\* a send_otp that asks for the sender number before the client
send_otp_dispatch_numberfirst(e, gw) ==
    IF ~e.from_number THEN Dispatched("ValueError: phone number", 0, 0)
    ELSE IF ~e.credentials THEN Dispatched("ValueError: credentials", 0, 0)
    ELSE IF e.content_sid = "invalid" THEN Dispatched("ValueError: content sid", 0, 0)
    ELSE IF gw = "raises" THEN Dispatched("gateway exception", IF e.slack THEN 1 ELSE 0, 1)
    ELSE Dispatched("sent", IF e.slack THEN 1 ELSE 0, 1)

(***************************************************************************)
(* send_otp, lines 132-184: get_twilio_client, _get_from_number, the check *)
(* of the template SID, the post to Slack when a webhook is configured     *)
(* (its failure is logged and dropped, lines 115-118), and one call of     *)
(* client.messages.create, which returns or raises (gw); nothing catches   *)
(* what it raises.                                                         *)
(***************************************************************************)
send_otp_dispatch(e, gw) ==
    IF ~e.credentials THEN Dispatched("ValueError: credentials", 0, 0)
    ELSE IF ~e.from_number THEN Dispatched("ValueError: phone number", 0, 0)
    ELSE IF e.content_sid = "invalid" THEN Dispatched("ValueError: content sid", 0, 0)
    ELSE LET posts == IF e.slack THEN 1 ELSE 0 IN
    IF gw = "raises" THEN Dispatched("gateway exception", posts, 1)
    ELSE Dispatched("sent", posts, 1)

\* a send_otp that takes its record back when it fails
send_otp_exit_store_rollback(store, p, outcome) ==
    IF outcome = "sent" THEN store ELSE DelItem(store, p)

\* the store when send_otp(p) ends with outcome: no exit of lines 132-184
\* writes to _otp_store
send_otp_exit_store(store, p, outcome) == store

\* TWILIO_ACCOUNT_SID and TWILIO_AUTH_TOKEN, TWILIO_PHONE_NUMBER,
\* TWILIO_OTP_CONTENT_SID, SLACK_WEBHOOK_URL
Envs ==
    [credentials : BOOLEAN, from_number : BOOLEAN,
     content_sid : {"unset", "valid", "invalid"}, slack : BOOLEAN]

\* a deployment with credentials and a sender number, sending plain text
PlainEnv ==
    [credentials |-> TRUE, from_number |-> TRUE, content_sid |-> "unset",
     slack |-> FALSE]


(***************************************************************************)
(* History of the calls, kept from their arguments and results only.  A    *)
(* run keeps the part of the history named by follow, for the subject      *)
(* watch; both are chosen at the start and never change:                   *)
(*   "issue"     the latest issuance to watch and whether it was consumed  *)
(*   "twice"     that, and the code of the issuance before it              *)
(*   "retry"     that, and the failed verifications since the issuance     *)
(*   "solo"      the store of the run in which only watch's calls are made *)
(*   "sweep"     how many expired entries the last call of watch found     *)
(*   "delivery"  "issue", and how the last send_otp(watch) ended and       *)
(*               whether the gateway was going to return or to raise       *)
(* Of a call of another subject, last keeps the operation and the subject. *)
(***************************************************************************)
NoCode == <<>>

NotIssued ==
    [sent |-> FALSE, code |-> NoCode, at |-> 0, hasPrev |-> FALSE, prev |-> NoCode,
     consumed |-> FALSE, wrong |-> 0]

NoCall ==
    [op |-> "none", phone |-> "", code |-> NoCode, result |-> FALSE, t0 |-> 0, t1 |-> 0,
     was |-> NotIssued, solo_result |-> FALSE, stale |-> 0]

Issuance == {"issue", "twice", "retry", "delivery"}

\* in the histories "sweep" and "calls": how many entries of store the sweep
\* at clock reading t finds expired
StaleAt(store, t) ==
    IF follow \in {"sweep", "calls"} THEN Cardinality({r \in store : r.expires_at <= t}) ELSE 0

\* no send_otp(watch) has ended since the last one began
NoDelivery == [call |-> NotDispatched, gateway |-> "none"]

\* the history after send_otp(p) stored code at clock reading t1
IssuedAfterSend(code, t1) ==
    [sent |-> TRUE, code |-> code, at |-> t1,
     hasPrev |-> follow = "twice" /\ issued.sent,
     prev |-> IF follow = "twice" THEN issued.code ELSE NoCode,
     consumed |-> FALSE, wrong |-> 0]

\* the history after verify_otp(p, _) returned result
IssuedAfterVerify(result) ==
    [issued EXCEPT
       !.consumed = @ \/ result,
       !.wrong = IF follow = "retry" /\ ~result /\ @ < MaxWrong THEN @ + 1 ELSE @]

InitOtp(f, E) ==
    /\ now = 0
    /\ otp_store = {}
    /\ sending = {}
    /\ env \in E
    /\ delivery = NoDelivery
    /\ follow = f
    /\ watch \in Subjects
    /\ last = NoCall
    /\ issued = NotIssued
    /\ solo = {}

\* the clock advances
Tick ==
    /\ now < MaxTime
    /\ now' = now + 1
    /\ UNCHANGED <<otp_store, sending, env, delivery, follow, watch, last, issued, solo>>
    /\ UNCHANGED gateVars
    /\ UNCHANGED cookVars
    /\ UNCHANGED dataVars
    /\ UNCHANGED threadVars

\* send_otp(p) up to its store write; it then waits on the gateway
SendOtpStore(p) ==
    /\ p \notin sending
    /\ \E code \in generate_otp, d \in 0..1 :
        LET t1 == now + d
            followed == p = watch /\ follow \in Issuance
        IN
        /\ t1 <= MaxTime
        /\ now' = t1
        /\ otp_store' = send_otp_store(otp_store, p, code, now, t1)
        /\ solo' = IF p = watch /\ follow = "solo"
                     THEN send_otp_store(solo, p, code, now, t1) ELSE solo
        /\ issued' = IF followed THEN IssuedAfterSend(code, t1) ELSE issued
        /\ last' = IF p = watch \/ follow = "calls"
              THEN [op |-> "send_otp", phone |-> p, code |-> code, result |-> TRUE,
                    t0 |-> now, t1 |-> t1,
                    was |-> IF followed THEN issued ELSE NotIssued,
                    solo_result |-> TRUE, stale |-> StaleAt(otp_store, now)]
              ELSE [NoCall EXCEPT !.op = "send_otp", !.phone = p]
    /\ delivery' = IF p = watch /\ follow = "delivery" THEN NoDelivery ELSE delivery
    /\ sending' = sending \cup {p}
    /\ UNCHANGED <<env, follow, watch>>
    /\ UNCHANGED gateVars
    /\ UNCHANGED cookVars
    /\ UNCHANGED dataVars
    /\ UNCHANGED threadVars

\* the rest of send_otp(p): configuration checks and the gateway call
SendOtpDispatch(p) ==
    /\ p \in sending
    /\ \E gw \in {"returns", "raises"} :
        LET call == send_otp_dispatch(env, gw) IN
        /\ otp_store' = send_otp_exit_store(otp_store, p, call.outcome)
        /\ solo' = IF p = watch /\ follow = "solo"
                     THEN send_otp_exit_store(solo, p, call.outcome) ELSE solo
        /\ delivery' = IF p = watch /\ follow = "delivery"
                         THEN [call |-> call, gateway |-> gw] ELSE delivery
    /\ sending' = sending \ {p}
    /\ UNCHANGED <<now, env, follow, watch, last, issued>>
    /\ UNCHANGED gateVars
    /\ UNCHANGED cookVars
    /\ UNCHANGED dataVars
    /\ UNCHANGED threadVars

\* verify_otp(p, cand), the whole call
VerifyOtp(p) ==
    /\ \E cand \in Candidates, d \in 0..1 :
        LET t1 == now + d
            r == verify_otp(otp_store, p, cand, now, t1)
            s == verify_otp(solo, p, cand, now, t1)
            followed == p = watch /\ follow \in Issuance
            alone == p = watch /\ follow = "solo"
        IN
        /\ t1 <= MaxTime
        /\ now' = t1
        /\ otp_store' = r.store
        /\ solo' = IF alone THEN s.store ELSE solo
        /\ issued' = IF followed THEN IssuedAfterVerify(r.result) ELSE issued
        /\ last' = IF p = watch \/ follow = "calls"
              THEN [op |-> "verify_otp", phone |-> p, code |-> cand, result |-> r.result,
                    t0 |-> now, t1 |-> t1,
                    was |-> IF followed THEN issued ELSE NotIssued,
                    solo_result |-> IF alone THEN s.result ELSE r.result,
                    stale |-> StaleAt(otp_store, now)]
              ELSE [NoCall EXCEPT !.op = "verify_otp", !.phone = p]
    /\ UNCHANGED <<sending, env, delivery, follow, watch>>
    /\ UNCHANGED gateVars
    /\ UNCHANGED cookVars
    /\ UNCHANGED dataVars
    /\ UNCHANGED threadVars

(***************************************************************************)
(* The token gate, app/dependencies/auth.py.                               *)
(*                                                                         *)
(* A header is absent or a string; a string is a sequence of characters,   *)
(* and a token inside it is one item of the sequence, named as in          *)
(* TokenTable.  A Python value is a pair <<type, text>>.                   *)
(***************************************************************************)
UserIds == {"1", "2"}

PyNone == <<"none", "None">>
PyStr(text) == <<"str", text>>
PyInt(text) == <<"int", text>>

\* str(v)
Str(v) == v[2]

\* bool(v)
Truthy(v) ==
    ~ \/ v = PyNone
      \/ v = PyStr("")
      \/ v = PyInt("0")

\* the length of the leading run of non-whitespace items of s
RECURSIVE RunLen(_)
RunLen(s) ==
    IF s = <<>> \/ Head(s) \in Whitespace THEN 0 ELSE 1 + RunLen(Tail(s))

\* str.split(): the maximal runs of non-whitespace
RECURSIVE split(_)
split(s) ==
    IF s = <<>> THEN <<>>
    ELSE IF Head(s) \in Whitespace THEN split(Tail(s))
    ELSE <<SubSeq(s, 1, RunLen(s))>> \o split(SubSeq(s, RunLen(s) + 1, Len(s)))

\* str.lower(), on the letters the headers use
LowerChar(c) ==
    CASE c = "B" -> "b" [] c = "E" -> "e" [] c = "A" -> "a" [] c = "R" -> "r"
      [] c = "S" -> "s" [] c = "I" -> "i" [] c = "C" -> "c"
      [] OTHER -> c
lower(w) == [i \in 1..Len(w) |-> LowerChar(w[i])]

\* the tokens a client may present: signature, expiry and subject claim
TokenTable ==
    [good1     |-> [signed |-> TRUE,  expired |-> FALSE, sub |-> PyStr("1")],
     good2     |-> [signed |-> TRUE,  expired |-> FALSE, sub |-> PyStr("2")],
     int1      |-> [signed |-> TRUE,  expired |-> FALSE, sub |-> PyInt("1")],
     nosub     |-> [signed |-> TRUE,  expired |-> FALSE, sub |-> PyNone],
     emptysub  |-> [signed |-> TRUE,  expired |-> FALSE, sub |-> PyStr("")],
     expired1  |-> [signed |-> TRUE,  expired |-> TRUE,  sub |-> PyStr("1")],
     forged1   |-> [signed |-> FALSE, expired |-> FALSE, sub |-> PyStr("1")],
     forged2   |-> [signed |-> FALSE, expired |-> TRUE,  sub |-> PyStr("2")]]
TokenNames == DOMAIN TokenTable

\* jwt_service.verify_access_token(token): the payload of a token whose
\* signature verifies and that has not expired; it raises otherwise
TokenAccepted(token) ==
    /\ Len(token) = 1
    /\ token[1] \in TokenNames
    /\ TokenTable[token[1]].signed
    /\ ~TokenTable[token[1]].expired
verify_access_token(token) == TokenTable[token[1]]

\* auth_service.get_user_by_id(user_id): returns the account, raises
\* ValueError when there is none, or fails to reach the directory
get_user_by_id(user_id, accts, dir) ==
    IF dir = "down" THEN "Exception"
    ELSE IF Str(user_id) \in accts THEN "account"
    ELSE "ValueError"

Rejected(status, detail, verified, looked_up) ==
    [ran |-> TRUE, ok |-> FALSE, status |-> status, detail |-> detail, user_id |-> "",
     verified |-> verified, looked_up |-> looked_up]

NotRun ==
    [ran |-> FALSE, ok |-> FALSE, status |-> 0, detail |-> "", user_id |-> "",
     verified |-> FALSE, looked_up |-> FALSE]

\* a gate that returns the subject although the lookup raised ValueError
get_current_user_id_nolookup(present, text, accts, dir) ==
    IF ~present \/ text = <<>>
      THEN Rejected(401, "Authorization header is required", FALSE, FALSE)
    ELSE IF Len(split(text)) # 2 \/ lower(split(text)[1]) # <<"b", "e", "a", "r", "e", "r">>
      THEN Rejected(401, "Invalid authorization format. Expected: Bearer <token>",
                    FALSE, FALSE)
    ELSE IF ~TokenAccepted(split(text)[2])
      THEN Rejected(401, "Invalid or expired token. Please login again.", TRUE, FALSE)
    ELSE IF ~Truthy(verify_access_token(split(text)[2]).sub)
      THEN Rejected(401, "Invalid token: missing user identifier", TRUE, FALSE)
    ELSE [ran |-> TRUE, ok |-> TRUE, status |-> 200, detail |-> "",
          user_id |-> Str(verify_access_token(split(text)[2]).sub),
          verified |-> TRUE, looked_up |-> TRUE]

\* a gate that hands the second part of any header to verify_access_token
get_current_user_id_anyscheme(present, text, accts, dir) ==
    IF ~present \/ text = <<>>
      THEN Rejected(401, "Authorization header is required", FALSE, FALSE)
    ELSE IF Len(split(text)) # 2
      THEN Rejected(401, "Invalid authorization format. Expected: Bearer <token>",
                    FALSE, FALSE)
    ELSE IF ~TokenAccepted(split(text)[2])
      THEN Rejected(401, "Invalid or expired token. Please login again.", TRUE, FALSE)
    ELSE [ran |-> TRUE, ok |-> TRUE, status |-> 200, detail |-> "",
          user_id |-> Str(verify_access_token(split(text)[2]).sub),
          verified |-> TRUE, looked_up |-> TRUE]

\* a gate that lets the exception of verify_access_token through
get_current_user_id_uncaught(present, text, accts, dir) ==
    IF ~present \/ text = <<>>
      THEN Rejected(401, "Authorization header is required", FALSE, FALSE)
    ELSE IF Len(split(text)) # 2 \/ lower(split(text)[1]) # <<"b", "e", "a", "r", "e", "r">>
      THEN Rejected(401, "Invalid authorization format. Expected: Bearer <token>",
                    FALSE, FALSE)
    ELSE IF ~TokenAccepted(split(text)[2])
      THEN Rejected(500, "Internal Server Error", TRUE, FALSE)
    ELSE IF ~Truthy(verify_access_token(split(text)[2]).sub)
      THEN Rejected(401, "Invalid token: missing user identifier", TRUE, FALSE)
    ELSE IF get_user_by_id(verify_access_token(split(text)[2]).sub, accts, dir) # "account"
      THEN Rejected(401, "User not found or deactivated.", TRUE, TRUE)
    ELSE [ran |-> TRUE, ok |-> TRUE, status |-> 200, detail |-> "",
          user_id |-> Str(verify_access_token(split(text)[2]).sub),
          verified |-> TRUE, looked_up |-> TRUE]

\* a gate with one reason for everything that fails after the format check
get_current_user_id_onereason(present, text, accts, dir) ==
    IF ~present \/ text = <<>>
      THEN Rejected(401, "Authorization header is required", FALSE, FALSE)
    ELSE IF Len(split(text)) # 2 \/ lower(split(text)[1]) # <<"b", "e", "a", "r", "e", "r">>
      THEN Rejected(401, "Invalid authorization format. Expected: Bearer <token>",
                    FALSE, FALSE)
    ELSE IF ~TokenAccepted(split(text)[2])
      THEN Rejected(401, "Invalid or expired token. Please login again.", TRUE, FALSE)
    ELSE IF ~Truthy(verify_access_token(split(text)[2]).sub)
      THEN Rejected(401, "Invalid or expired token. Please login again.", TRUE, FALSE)
    ELSE IF get_user_by_id(verify_access_token(split(text)[2]).sub, accts, dir) # "account"
      THEN Rejected(401, "Invalid or expired token. Please login again.", TRUE, TRUE)
    ELSE [ran |-> TRUE, ok |-> TRUE, status |-> 200, detail |-> "",
          user_id |-> Str(verify_access_token(split(text)[2]).sub),
          verified |-> TRUE, looked_up |-> TRUE]

(***************************************************************************)
(* get_current_user_id.  verified and looked_up tell whether               *)
(* verify_access_token and get_user_by_id were called.                     *)
(***************************************************************************)
get_current_user_id(present, text, accts, dir) ==
    IF ~present \/ text = <<>>
      THEN Rejected(401, "Authorization header is required", FALSE, FALSE)
    ELSE IF Len(split(text)) # 2 \/ lower(split(text)[1]) # <<"b", "e", "a", "r", "e", "r">>
      THEN Rejected(401, "Invalid authorization format. Expected: Bearer <token>",
                    FALSE, FALSE)
    ELSE LET token == split(text)[2] IN
    IF ~TokenAccepted(token)
      THEN Rejected(401, "Invalid or expired token. Please login again.", TRUE, FALSE)
    ELSE LET user_id == verify_access_token(token).sub IN
    IF ~Truthy(user_id)
      THEN Rejected(401, "Invalid token: missing user identifier", TRUE, FALSE)
    ELSE LET found == get_user_by_id(user_id, accts, dir) IN
    IF found = "ValueError"
      THEN Rejected(401, "User not found or deactivated.", TRUE, TRUE)
    ELSE IF found = "Exception"
      THEN Rejected(401, "Invalid or expired token. Please login again.", TRUE, TRUE)
    ELSE [ran |-> TRUE, ok |-> TRUE, status |-> 200, detail |-> "",
          user_id |-> Str(user_id), verified |-> TRUE, looked_up |-> TRUE]

\* an owner check that lets every authenticated caller through
verify_user_access_open(user_id, gate) ==
    IF ~gate.ok THEN [ok |-> FALSE, status |-> gate.status, detail |-> gate.detail,
                      user_id |-> ""]
    ELSE [ok |-> TRUE, status |-> 200, detail |-> "", user_id |-> Str(PyStr(user_id))]

\* an owner check that compares the ids before it looks at what the gate said
verify_user_access_comparefirst(user_id, gate) ==
    IF Str(PyStr(gate.user_id)) # Str(PyStr(user_id))
      THEN [ok |-> FALSE, status |-> 403,
            detail |-> "You do not have permission to access this resource.",
            user_id |-> ""]
    ELSE IF ~gate.ok
      THEN [ok |-> FALSE, status |-> gate.status, detail |-> gate.detail, user_id |-> ""]
    ELSE [ok |-> TRUE, status |-> 200, detail |-> "", user_id |-> Str(PyStr(user_id))]

(***************************************************************************)
(* verify_user_access(user_id, current_user_id = Depends(...)): the        *)
(* rejection of the gate passes through; else both ids are compared as     *)
(* strings.                                                                *)
(***************************************************************************)
verify_user_access(user_id, gate) ==
    IF ~gate.ok THEN [ok |-> FALSE, status |-> gate.status, detail |-> gate.detail,
                      user_id |-> ""]
    ELSE LET current == Str(PyStr(gate.user_id))
             requested == Str(PyStr(user_id))
         IN
    IF current # requested
      THEN [ok |-> FALSE, status |-> 403,
            detail |-> "You do not have permission to access this resource.",
            user_id |-> ""]
      ELSE [ok |-> TRUE, status |-> 200, detail |-> "", user_id |-> requested]

(***************************************************************************)
(* The requests: Authorization headers, path user ids, and whether the     *)
(* Account Directory (dir) and the database (db) answer.                   *)
(***************************************************************************)
Bearer == <<"B", "e", "a", "r", "e", "r">>
Schemes == {Bearer, lower(Bearer), <<"B", "E", "A", "R", "E", "R">>, <<"B", "a", "s", "i", "c">>}

HeaderTexts ==
    {<<>>, <<" ">>}
    \cup Schemes
    \cup {Bearer \o <<" ", t>> : t \in TokenNames \cup {"garbage"}}
    \cup {sch \o <<" ", "good2">> : sch \in Schemes}
    \cup {Bearer \o <<" ", " ", "good1", "\n">>,
          Bearer \o <<" ", "good1", " ", "x">>,
          Bearer \o <<"good1">>}

Headers ==
    {[present |-> FALSE, text |-> <<>>]}
    \cup {[present |-> TRUE, text |-> t] : t \in HeaderTexts}

\* the headers sent to the routes that declare no dependency on the gate
PlainHeaders ==
    {h \in Headers : ~h.present \/ h.text \in {Bearer \o <<" ", "good1">>,
                                                Bearer \o <<" ", "good2">>,
                                                Bearer \o <<" ", "expired1">>}}

NoRequest ==
    [route |-> "", header |-> [present |-> FALSE, text |-> <<>>], path |-> "",
     dir |-> "up", accts |-> {}, gate |-> NotRun, owner_id |-> "", status |-> 0,
     acted_on |-> ""]

InitGateIdle ==
    /\ accounts = UserIds
    /\ req = NoRequest

InitGate == InitGateIdle

\* an account is created, or deactivated, in the Account Directory
DirectoryChange ==
    /\ \E u \in UserIds :
        accounts' = IF u \in accounts THEN accounts \ {u} ELSE accounts \cup {u}
    /\ UNCHANGED req
    /\ UNCHANGED otpVars
    /\ UNCHANGED cookVars
    /\ UNCHANGED dataVars
    /\ UNCHANGED threadVars

\* GET /grocery/{user_id}: user_id = Depends(verify_user_access); the
\* handler then queries the meal plan of the user_id the dependency returned
get_user_groceries ==
    /\ \E h \in Headers, path \in UserIds, dir \in {"up", "down"}, db \in {"ok", "fails"} :
        LET gate == get_current_user_id(h.present, h.text, accounts, dir)
            owner == verify_user_access(path, gate)
        IN req' = [route |-> "GET /grocery/{user_id}", header |-> h, path |-> path,
                   dir |-> dir, accts |-> accounts, gate |-> gate,
                   owner_id |-> owner.user_id,
                   status |-> IF ~owner.ok THEN owner.status
                              ELSE IF db = "fails" THEN 500 ELSE 200,
                   acted_on |-> IF owner.ok /\ db = "ok" THEN owner.user_id ELSE ""]
    /\ UNCHANGED accounts
    /\ UNCHANGED otpVars
    /\ UNCHANGED cookVars
    /\ UNCHANGED dataVars
    /\ UNCHANGED threadVars

\* the handlers of app/routes/auth.py that take a path user_id: each passes
\* it to auth_service, which raises ValueError (404) for an unknown user
AuthUserRoute(route) ==
    /\ \E h \in PlainHeaders, path \in UserIds, dir \in {"up", "down"} :
        LET found == get_user_by_id(PyStr(path), accounts, dir) IN
        req' = [route |-> route, header |-> h, path |-> path,
                dir |-> dir, accts |-> accounts, gate |-> NotRun, owner_id |-> "",
                status |-> IF found = "ValueError" THEN 404
                           ELSE IF found = "Exception" THEN 500 ELSE 200,
                acted_on |-> IF found = "account" THEN path ELSE ""]
    /\ UNCHANGED accounts
    /\ UNCHANGED otpVars
    /\ UNCHANGED cookVars
    /\ UNCHANGED dataVars
    /\ UNCHANGED threadVars

update_profile == AuthUserRoute("PUT /auth/user/{user_id}/profile")
update_onboarding_data == AuthUserRoute("PUT /auth/user/{user_id}/onboarding")
get_user == AuthUserRoute("GET /auth/user/{user_id}")
get_onboarding_status == AuthUserRoute("GET /auth/user/{user_id}/onboarding-status")

(***************************************************************************)
(* The cook service, app/services/cook_service.py.  A row of the table     *)
(* cooks is [id, user_id, name, phone_number]; the database gives a new    *)
(* row its id.  cook_data is a dict: a key that is missing has the value   *)
(* Missing.  languages_known and has_smart_phone have defaults and play no *)
(* part in what add_cook decides; the rows of the model leave them out.    *)
(***************************************************************************)
Missing == "<missing>"
CookPhones == {"+91980", "+91981"}
CookNames == {"Asha"}

CookData == [name : CookNames \cup {Missing}, phone_number : CookPhones \cup {Missing}]

\* select * from cooks where user_id = user_id and phone_number = phone_number
SelectCooks(table, user_id, phone_number) ==
    {r \in table : r.user_id = user_id /\ r.phone_number = phone_number}

\* the id the database gives to the next row
NewId(table) ==
    IF table = {} THEN 1
    ELSE 1 + CHOOSE i \in {r.id : r \in table} : \A r \in table : r.id <= i

NoRow == [id |-> 0, user_id |-> "", name |-> "", phone_number |-> ""]

\* an add_cook that looks for the phone number among the cooks of all users
add_cook_anyuser(table, user_id, cook_data, db) ==
    IF cook_data.phone_number = Missing
      THEN [table |-> table, result |-> "KeyError", row |-> NoRow]
    ELSE IF db = "select fails"
      THEN [table |-> table, result |-> "Exception", row |-> NoRow]
    ELSE IF {r \in table : r.phone_number = cook_data.phone_number} # {}
      THEN [table |-> table, result |-> "ValueError", row |-> NoRow]
    ELSE IF cook_data.name = Missing
      THEN [table |-> table, result |-> "KeyError", row |-> NoRow]
    ELSE IF db = "insert fails"
      THEN [table |-> table, result |-> "Exception", row |-> NoRow]
    ELSE LET new_cook == [id |-> NewId(table), user_id |-> user_id,
                          name |-> cook_data.name,
                          phone_number |-> cook_data.phone_number]
         IN [table |-> table \cup {new_cook}, result |-> "row", row |-> new_cook]

(***************************************************************************)
(* CookService.add_cook, lines 29-58: the select of lines 31-35, the       *)
(* ValueError of line 38, the insert of lines 49-51; every exception is    *)
(* printed and raised again.  db tells which statement, if any, the        *)
(* database fails.                                                         *)
(***************************************************************************)
add_cook(table, user_id, cook_data, db) ==
    IF cook_data.phone_number = Missing
      THEN [table |-> table, result |-> "KeyError", row |-> NoRow]
    ELSE IF db = "select fails"
      THEN [table |-> table, result |-> "Exception", row |-> NoRow]
    ELSE IF SelectCooks(table, user_id, cook_data.phone_number) # {}
      THEN [table |-> table, result |-> "ValueError", row |-> NoRow]
    ELSE IF cook_data.name = Missing
      THEN [table |-> table, result |-> "KeyError", row |-> NoRow]
    ELSE IF db = "insert fails"
      THEN [table |-> table, result |-> "Exception", row |-> NoRow]
    ELSE LET new_cook == [id |-> NewId(table), user_id |-> user_id,
                          name |-> cook_data.name,
                          phone_number |-> cook_data.phone_number]
         IN [table |-> table \cup {new_cook}, result |-> "row", row |-> new_cook]

\* update_data is a dict as well; of the columns that may be updated the
\* model has phone_number, of the protected ones user_id
UpdateData == [phone_number : CookPhones \cup {Missing}, user_id : UserIds \cup {Missing}]

\* select * from cooks where id = cook_id and user_id = user_id
SelectCook(table, cook_id, user_id) ==
    {r \in table : r.id = cook_id /\ r.user_id = user_id}

\* a lookup by id alone
get_cook_by_id_anyowner(table, cook_id, user_id, db) ==
    IF db = "select fails" THEN [result |-> "Exception", row |-> NoRow]
    ELSE IF {r \in table : r.id = cook_id} = {}
      THEN [result |-> "ValueError: Cook not found", row |-> NoRow]
    ELSE [result |-> "row", row |-> CHOOSE r \in table : r.id = cook_id]

(***************************************************************************)
(* CookService.get_cook_by_id, lines 97-111.                               *)
(***************************************************************************)
get_cook_by_id(table, cook_id, user_id, db) ==
    IF db = "select fails" THEN [result |-> "Exception", row |-> NoRow]
    ELSE IF SelectCook(table, cook_id, user_id) = {}
      THEN [result |-> "ValueError: Cook not found", row |-> NoRow]
    ELSE [result |-> "row", row |-> CHOOSE r \in SelectCook(table, cook_id, user_id) : TRUE]

\* lines 133-134: update_data without the protected fields
clean_data(update_data) == [update_data EXCEPT !.user_id = Missing]

\* update cooks set ... where id = cook_id and user_id = user_id: the rows
\* after the statement
UpdatedRows(table, cook_id, user_id, data) ==
    {[r EXCEPT !.phone_number = IF data.phone_number = Missing THEN @
                                 ELSE data.phone_number,
               !.user_id = IF data.user_id = Missing THEN @ ELSE data.user_id] :
        r \in SelectCook(table, cook_id, user_id)}

(***************************************************************************)
(* CookService.update_cook, lines 128-153: the ownership check through     *)
(* get_cook_by_id, the removal of the protected fields, the update and     *)
(* the check of what it returned.                                          *)
(***************************************************************************)
update_cook(table, cook_id, user_id, update_data, db) ==
    LET owned == get_cook_by_id(table, cook_id, user_id, db) IN
    IF owned.result # "row"
      THEN [table |-> table, result |-> owned.result, row |-> NoRow]
    ELSE IF clean_data(update_data).phone_number = Missing
      THEN [table |-> table, result |-> "ValueError: No valid fields to update",
            row |-> NoRow]
    ELSE IF db = "write fails"
      THEN [table |-> table, result |-> "Exception", row |-> NoRow]
    ELSE LET rows == UpdatedRows(table, cook_id, user_id, clean_data(update_data)) IN
    IF rows = {}
      THEN [table |-> table, result |-> "ValueError: Cook not found", row |-> NoRow]
    ELSE [table |-> (table \ SelectCook(table, cook_id, user_id)) \cup rows,
          result |-> "row", row |-> CHOOSE r \in rows : TRUE]

(***************************************************************************)
(* CookService.delete_cook, lines 169-184: the ownership check, then the   *)
(* delete; what the delete returned is not looked at.                      *)
(***************************************************************************)
delete_cook(table, cook_id, user_id, db) ==
    LET owned == get_cook_by_id(table, cook_id, user_id, db) IN
    IF owned.result # "row"
      THEN [table |-> table, result |-> owned.result, row |-> NoRow]
    ELSE IF db = "write fails"
      THEN [table |-> table, result |-> "Exception", row |-> NoRow]
    ELSE [table |-> table \ SelectCook(table, cook_id, user_id),
          result |-> "Cook deleted successfully", row |-> NoRow]

NoCookCall ==
    [op |-> "none", user_id |-> "", cook_id |-> 0,
     cook_data |-> [name |-> Missing, phone_number |-> Missing],
     update_data |-> [phone_number |-> Missing, user_id |-> Missing],
     db |-> "ok", before |-> {}, result |-> "", row |-> NoRow]

InitCooks ==
    /\ cooks = {}
    /\ cook_call = NoCookCall

\* cook_service.add_cook(user_id, cook_data), the whole call
AddCook ==
    /\ \E user_id \in UserIds, cook_data \in CookData,
          db \in {"ok", "select fails", "insert fails"} :
        LET r == add_cook(cooks, user_id, cook_data, db) IN
        /\ \A row \in r.table : row.id <= MaxCooks
        /\ cooks' = r.table
        /\ cook_call' = [NoCookCall EXCEPT !.op = "add_cook", !.user_id = user_id,
                            !.cook_data = cook_data, !.db = db, !.before = cooks,
                            !.result = r.result, !.row = r.row]
    /\ UNCHANGED otpVars
    /\ UNCHANGED gateVars
    /\ UNCHANGED dataVars
    /\ UNCHANGED threadVars

\* cook_service.get_cook_by_id(cook_id, user_id), the whole call
GetCook ==
    /\ \E cook_id \in 1..MaxCooks, user_id \in UserIds, db \in {"ok", "select fails"} :
        LET r == get_cook_by_id(cooks, cook_id, user_id, db) IN
        cook_call' = [NoCookCall EXCEPT !.op = "get_cook_by_id", !.user_id = user_id,
                         !.cook_id = cook_id, !.db = db, !.before = cooks,
                         !.result = r.result, !.row = r.row]
    /\ UNCHANGED cooks
    /\ UNCHANGED otpVars
    /\ UNCHANGED gateVars
    /\ UNCHANGED dataVars
    /\ UNCHANGED threadVars

\* cook_service.update_cook(cook_id, user_id, update_data), the whole call
UpdateCook ==
    /\ \E cook_id \in 1..MaxCooks, user_id \in UserIds, update_data \in UpdateData,
          db \in {"ok", "select fails", "write fails"} :
        LET r == update_cook(cooks, cook_id, user_id, update_data, db) IN
        /\ cooks' = r.table
        /\ cook_call' = [NoCookCall EXCEPT !.op = "update_cook", !.user_id = user_id,
                            !.cook_id = cook_id, !.update_data = update_data, !.db = db,
                            !.before = cooks, !.result = r.result, !.row = r.row]
    /\ UNCHANGED otpVars
    /\ UNCHANGED gateVars
    /\ UNCHANGED dataVars
    /\ UNCHANGED threadVars

\* cook_service.delete_cook(cook_id, user_id), the whole call
DeleteCook ==
    /\ \E cook_id \in 1..MaxCooks, user_id \in UserIds,
          db \in {"ok", "select fails", "write fails"} :
        LET r == delete_cook(cooks, cook_id, user_id, db) IN
        /\ cooks' = r.table
        /\ cook_call' = [NoCookCall EXCEPT !.op = "delete_cook", !.user_id = user_id,
                            !.cook_id = cook_id, !.db = db, !.before = cooks,
                            !.result = r.result, !.row = r.row]
    /\ UNCHANGED otpVars
    /\ UNCHANGED gateVars
    /\ UNCHANGED dataVars
    /\ UNCHANGED threadVars

(***************************************************************************)
(* The reference data of app/routes/onboarding.py.  A row is a record; a   *)
(* query answers with the list of the rows that the database selected and  *)
(* ordered, or fails.                                                      *)
(***************************************************************************)
GoalRows ==
    {[id |-> 1, name |-> "Weight Loss", display_order |-> 1, created_at |-> "2025-01-01"],
     [id |-> 2, name |-> "Muscle Gain", display_order |-> 2, created_at |-> "2025-01-02"]}

\* what the select on onboarding_goals may answer
GoalAnswers ==
    {<<>>} \cup {<<r>> : r \in GoalRows}
    \cup {a \in {<<r1, r2>> : r1 \in GoalRows, r2 \in GoalRows} : a[1] # a[2]}

\* {k: v for k, v in item.items() if k != "created_at"}
without_created_at(item) == [k \in DOMAIN item \ {"created_at"} |-> item[k]]

\* remove_created_at(items), and the comprehension of line 211
remove_created_at(items) == [i \in 1..Len(items) |-> without_created_at(items[i])]

NoReply ==
    [route |-> "", header |-> [present |-> FALSE, text |-> <<>>], gate |-> NotRun,
     answered |-> <<>>, overtaken |-> FALSE, db |-> "ok", status |-> 0,
     success |-> FALSE, data |-> <<>>]

\* a get_goals that depends on the token gate
get_goals_gated(h, accts, answer, db) ==
    LET gate == get_current_user_id(h.present, h.text, accts, "up") IN
    IF ~gate.ok
      THEN [NoReply EXCEPT !.route = "GET /onboarding/goals", !.header = h,
                           !.gate = gate, !.answered = answer, !.db = db,
                           !.status = gate.status]
    ELSE [NoReply EXCEPT !.route = "GET /onboarding/goals", !.header = h, !.gate = gate,
                         !.answered = answer, !.db = db, !.status = 200, !.success = TRUE,
                         !.data = remove_created_at(answer)]

(***************************************************************************)
(* get_goals, lines 194-225: the handler declares no dependency, so the    *)
(* header h and the accounts play no part; db tells whether the query      *)
(* fails.                                                                  *)
(***************************************************************************)
get_goals(h, accts, answer, db) ==
    IF db = "fails"
      THEN [NoReply EXCEPT !.route = "GET /onboarding/goals", !.header = h,
                           !.answered = answer, !.db = db, !.status = 500]
    ELSE [NoReply EXCEPT !.route = "GET /onboarding/goals", !.header = h,
                         !.answered = answer, !.db = db, !.status = 200, !.success = TRUE,
                         !.data = remove_created_at(answer)]

(***************************************************************************)
(* get_all_onboarding_data, lines 34-174.  The handler hands nine fetches  *)
(* to the thread pool (max_workers = 10, so none waits for another), and   *)
(* awaits asyncio.gather over the nine futures.  Each fetch is one step of *)
(* a worker thread and the steps come in any order.  fetches is the        *)
(* request in progress: task[t] is the future of the t-th task, overtaken  *)
(* tells whether some task completed while one submitted before it was     *)
(* still running.                                                          *)
(***************************************************************************)
Tables ==
    <<"onboarding_goals", "onboarding_dietary_patterns",
      "onboarding_dietary_restrictions", "onboarding_medical_restrictions",
      "onboarding_nutrition_preferences", "onboarding_spice_levels",
      "onboarding_cooking_oils", "onboarding_cuisines", "onboarding_meal_items">>

\* the keys of "data", in the order in which gather's results are unpacked
Keys ==
    <<"goals", "dietary_patterns", "dietary_restrictions", "medical_restrictions",
      "nutrition_preferences", "spice_levels", "cooking_oils", "cuisines",
      "meal_items">>

Tasks == 1..Len(Tables)

\* the active rows of a table: one row, which bears the name of its table
TableRows(table) ==
    <<[id |-> 1, name |-> table, display_order |-> 1, created_at |-> "2025-01-01"]>>

Pending == [state |-> "pending", rows |-> <<>>, result |-> <<>>]

NoFetches == [running |-> FALSE, task |-> <<>>, overtaken |-> FALSE]

\* fetch_table_data(table_name) and fetch_meal_items(): the future of the task
fetch_table_data(table_name, db) ==
    IF db = "fails"
      THEN [state |-> "raised", rows |-> <<>>, result |-> <<>>]
    ELSE [state |-> "done", rows |-> TableRows(table_name),
          result |-> remove_created_at(TableRows(table_name))]

\* the index of a key in Keys
KeyIndex(k) == CHOOSE t \in Tasks : Keys[t] = k

\* a handler that answers with what it has when a fetch fails
get_all_onboarding_data_partial(task) ==
    [NoReply EXCEPT !.route = "GET /onboarding", !.answered = task,
                    !.status = 200, !.success = TRUE,
                    !.data = [k \in {Keys[t] : t \in Tasks} |-> task[KeyIndex(k)].result]]

\* lines 138-174: what the handler answers when gather returns or raises
get_all_onboarding_data(task) ==
    IF \E t \in Tasks : task[t].state = "raised"
      THEN [NoReply EXCEPT !.route = "GET /onboarding", !.answered = task,
                           !.db = "fails", !.status = 500]
    ELSE [NoReply EXCEPT !.route = "GET /onboarding", !.answered = task,
                         !.status = 200, !.success = TRUE,
                         !.data = [k \in {Keys[t] : t \in Tasks} |->
                                      task[KeyIndex(k)].result]]

InitData ==
    /\ fetches = NoFetches
    /\ reply = NoReply

\* GET /onboarding/goals; reply follows one request at a time
GetGoals ==
    /\ ~fetches.running
    /\ \E h \in PlainHeaders, answer \in GoalAnswers, db \in {"ok", "fails"} :
        reply' = get_goals(h, accounts, answer, db)
    /\ UNCHANGED fetches
    /\ UNCHANGED otpVars
    /\ UNCHANGED gateVars
    /\ UNCHANGED cookVars
    /\ UNCHANGED threadVars

\* GET /onboarding, lines 89-136: the nine tasks are handed to the executor
GetOnboarding ==
    /\ ~fetches.running
    /\ fetches' = [running |-> TRUE, task |-> [t \in Tasks |-> Pending],
                   overtaken |-> FALSE]
    /\ reply' = NoReply
    /\ UNCHANGED otpVars
    /\ UNCHANGED gateVars
    /\ UNCHANGED cookVars
    /\ UNCHANGED threadVars

\* a worker thread ends the fetch of task t
FetchTable(t) ==
    /\ fetches.running
    /\ fetches.task[t].state = "pending"
    /\ \E db \in {"ok", "fails"} :
        fetches' = [fetches EXCEPT
                      !.task[t] = fetch_table_data(Tables[t], db),
                      !.overtaken = @ \/ \E u \in 1..(t - 1) :
                                          fetches.task[u].state = "pending"]
    /\ UNCHANGED reply
    /\ UNCHANGED otpVars
    /\ UNCHANGED gateVars
    /\ UNCHANGED cookVars
    /\ UNCHANGED threadVars

\* lines 138-174: gather returns when every future has its result, and
\* raises as soon as one future holds an exception; the fetches that still
\* run are then left to themselves
Gather ==
    /\ fetches.running
    /\ \/ \A t \in Tasks : fetches.task[t].state = "done"
       \/ \E t \in Tasks : fetches.task[t].state = "raised"
    /\ reply' = [get_all_onboarding_data(fetches.task) EXCEPT
                   !.overtaken = fetches.overtaken]
    /\ fetches' = NoFetches
    /\ UNCHANGED otpVars
    /\ UNCHANGED gateVars
    /\ UNCHANGED cookVars
    /\ UNCHANGED threadVars

(***************************************************************************)
(* get_user_groceries, lines 138-282 of app/routes/grocery.py: the         *)
(* groceries of the meal items of the meal plan, from the rows of          *)
(* meal_item_groceries with their embedded grocery_items and               *)
(* grocery_types.  An embedded row that is null is the empty record.       *)
(***************************************************************************)
NoRecord == <<>>

\* grocery_items with their grocery_types: two of one type, one with no type
GroceryItems ==
    {[id |-> 1, name |-> "Rice", grocery_type_id |-> PyInt("1"), quantity |-> "2 kg",
      grocery_types |-> [id |-> 1, name |-> PyStr("Grains")]],
     [id |-> 2, name |-> "Milk", grocery_type_id |-> PyInt("2"), quantity |-> "1 l",
      grocery_types |-> [id |-> 2, name |-> PyStr("Dairy")]],
     [id |-> 3, name |-> "Wheat", grocery_type_id |-> PyInt("1"), quantity |-> "1 kg",
      grocery_types |-> [id |-> 1, name |-> PyStr("Grains")]],
     [id |-> 4, name |-> "Salt", grocery_type_id |-> PyNone, quantity |-> "100 g",
      grocery_types |-> NoRecord]}

MealItemIds == {11, 12}

\* the rows of meal_item_groceries, the grocery item embedded or null
JunctionRows ==
    {[meal_item_id |-> m, grocery_item_id |-> 9, grocery_items |-> NoRecord] :
        m \in MealItemIds}
    \cup {[meal_item_id |-> m, grocery_item_id |-> g.id, grocery_items |-> g] :
            m \in MealItemIds, g \in GroceryItems}

RECURSIVE SeqsUpTo(_, _)
SeqsUpTo(S, n) ==
    IF n = 0 THEN {<<>>}
    ELSE LET shorter == SeqsUpTo(S, n - 1) IN
         shorter \cup {Append(q, x) : q \in {r \in shorter : Len(r) = n - 1}, x \in S}

\* junction_response.data
Junctions == SeqsUpTo(JunctionRows, MaxJunction)

\* the entry made at lines 172-179 for a grocery item first met
GroceryEntry(grocery_item_data) ==
    [id |-> grocery_item_data.id,
     name |-> grocery_item_data.name,
     type |-> IF DOMAIN grocery_item_data.grocery_types # {}
                THEN grocery_item_data.grocery_types.name ELSE PyNone,
     type_id |-> grocery_item_data.grocery_type_id,
     quantity |-> grocery_item_data.quantity,
     meal_items |-> <<>>]

RECURSIVE grocery_item_map(_)
\* a loop that makes a new entry for every junction row
grocery_item_map_perrow(junction) ==
    LET kept == SelectSeq(junction, LAMBDA row : DOMAIN row.grocery_items # {}) IN
    [i \in 1..Len(kept) |->
        [GroceryEntry(kept[i].grocery_items) EXCEPT !.meal_items = <<kept[i].meal_item_id>>]]

\* lines 160-184: list(grocery_item_map.values()) after the loop over the
\* junction rows; a dict keeps its keys in the order of their insertion
grocery_item_map(junction) ==
    IF Len(junction) = 0 THEN <<>>
    ELSE LET front == grocery_item_map(SubSeq(junction, 1, Len(junction) - 1))
             row == junction[Len(junction)]
             grocery_item_data == row.grocery_items
         IN IF DOMAIN grocery_item_data = {} THEN front
            ELSE LET known == {i \in 1..Len(front) : front[i].id = grocery_item_data.id}
                     map == IF known = {}
                              THEN Append(front, GroceryEntry(grocery_item_data))
                            ELSE front
                     at == CHOOSE i \in 1..Len(map) : map[i].id = grocery_item_data.id
                 IN [map EXCEPT ![at].meal_items = Append(@, row.meal_item_id)]

\* type_name = grocery.get("type") or "Uncategorized"
TypeName(grocery) ==
    Str(IF Truthy(grocery.type) THEN grocery.type ELSE PyStr("Uncategorized"))

\* lines 265-271: dict(grocery_items_by_type)
grocery_items_by_type(grocery_items) ==
    [type_name \in {TypeName(grocery_items[i]) : i \in 1..Len(grocery_items)} |->
        SelectSeq(grocery_items, LAMBDA grocery : TypeName(grocery) = type_name)]

\* lines 273-282: the answer of a request that passed the gate, for a meal
\* plan with meal items, when the junction query answers the rows junction
GroceryReply(junction) ==
    [NoReply EXCEPT !.route = "GET /grocery/{user_id}", !.answered = junction,
                    !.status = 200, !.success = TRUE,
                    !.data = [meal_plan_id |-> 1,
                              grocery_items_by_type |->
                                  grocery_items_by_type(grocery_item_map(junction))]]

\* the junction rows are those of reply.answered
GroupGroceries ==
    /\ reply.route = ""
    /\ reply' = GroceryReply(reply.answered)
    /\ UNCHANGED fetches
    /\ UNCHANGED otpVars
    /\ UNCHANGED gateVars
    /\ UNCHANGED cookVars
    /\ UNCHANGED threadVars

(***************************************************************************)
(* The OTP service called from parallel threads.  A step of a thread is    *)
(* one access to _otp_store or one reading of the clock, with the local    *)
(* computation that follows it; the steps of the threads interleave in any *)
(* order.  The list comprehension of _clean_expired is two steps: the      *)
(* iterator over _otp_store.items() is made, and it is run to its end,     *)
(* where it raises RuntimeError when the size of the dict has changed in   *)
(* between.                                                                *)
(***************************************************************************)
Threads == {1, 2}

NoEntry == [phone |-> "", code |-> <<>>, expires_at |-> 0]

Idle ==
    [pc |-> "idle", op |-> "", phone |-> "", code |-> <<>>, t |-> 0, seen |-> {},
     expired |-> {}, entry |-> NoEntry, result |-> "", ended |-> ""]

InitThreads == threads = [T \in Threads |-> Idle]

StoreKeys(store) == {r.phone : r \in store}

\* the call is over: its locals are gone; its result, and the step at which
\* it ended, stay until the thread takes its next call
Done(th, result) ==
    [Idle EXCEPT !.pc = "done", !.op = th.op, !.phone = th.phone, !.code = th.code,
                 !.result = result, !.ended = th.pc]

\* where a call goes on after _clean_expired
AfterSweep(th) == [th EXCEPT !.pc = IF th.op = "verify_otp" THEN "get" ELSE "write",
                             !.seen = {}, !.expired = {}, !.t = 0]

\* a del that does nothing when the key is gone
del_otp_quiet(store, p) == [store |-> DelItem(store, p), raised |-> FALSE]

\* del _otp_store[p]: KeyError when p is not a key
del_otp(store, p) ==
    IF HasKey(store, p) THEN [store |-> DelItem(store, p), raised |-> FALSE]
    ELSE [store |-> store, raised |-> TRUE]

\* a thread takes a call of verify_otp
CallVerify(T) ==
    /\ threads[T].pc = "idle"
    /\ \E p \in Subjects, code \in generate_otp :
        threads' = [threads EXCEPT ![T] =
                      [Idle EXCEPT !.pc = "scan", !.op = "verify_otp", !.phone = p,
                                   !.code = code]]
    /\ UNCHANGED otpVars
    /\ UNCHANGED gateVars
    /\ UNCHANGED cookVars
    /\ UNCHANGED dataVars

\* a thread takes a call of send_otp
CallSend(T) ==
    /\ threads[T].pc = "idle"
    /\ \E p \in Subjects :
        threads' = [threads EXCEPT ![T] =
                      [Idle EXCEPT !.pc = "scan", !.op = "send_otp", !.phone = p]]
    /\ UNCHANGED otpVars
    /\ UNCHANGED gateVars
    /\ UNCHANGED cookVars
    /\ UNCHANGED dataVars

\* the thread is free for its next call
Return(T) ==
    /\ threads[T].pc = "done"
    /\ threads' = [threads EXCEPT ![T] = Idle]
    /\ UNCHANGED otpVars
    /\ UNCHANGED gateVars
    /\ UNCHANGED cookVars
    /\ UNCHANGED dataVars

\* _clean_expired, lines 73-74: the clock is read and the iterator made
ScanBegin(T) ==
    /\ threads[T].pc = "scan"
    /\ threads' = [threads EXCEPT ![T].pc = "scanning", ![T].t = now,
                                  ![T].seen = StoreKeys(otp_store)]
    /\ UNCHANGED otpVars
    /\ UNCHANGED gateVars
    /\ UNCHANGED cookVars
    /\ UNCHANGED dataVars

\* line 74: the iteration ends.  A dict of another size raises RuntimeError;
\* a dict of the same size with other keys may raise it or not
ScanEnd(T) ==
    LET th == threads[T]
        keys == StoreKeys(otp_store)
        expired == {r.phone : r \in {v \in otp_store : v.expires_at <= th.t}}
        listed == IF expired = {} THEN AfterSweep(th)
                  ELSE [th EXCEPT !.pc = "purge", !.expired = expired, !.seen = {}]
    IN
    /\ th.pc = "scanning"
    /\ \/ /\ keys # th.seen
          /\ threads' = [threads EXCEPT ![T] = Done(th, "RuntimeError")]
       \/ /\ Cardinality(keys) = Cardinality(th.seen)
          /\ threads' = [threads EXCEPT ![T] = listed]
    /\ UNCHANGED otpVars
    /\ UNCHANGED gateVars
    /\ UNCHANGED cookVars
    /\ UNCHANGED dataVars

\* lines 75-76: one del of the loop over expired
Purge(T) ==
    LET th == threads[T] IN
    /\ th.pc = "purge"
    /\ \E p \in th.expired :
        LET d == del_otp(otp_store, p)
            rest == th.expired \ {p}
        IN
        /\ otp_store' = d.store
        /\ threads' = [threads EXCEPT ![T] =
                         IF d.raised THEN Done(th, "KeyError")
                         ELSE IF rest = {} THEN AfterSweep(th)
                         ELSE [th EXCEPT !.expired = rest]]
    /\ UNCHANGED <<now, sending, env, delivery, follow, watch, last, issued, solo>>
    /\ UNCHANGED gateVars
    /\ UNCHANGED cookVars
    /\ UNCHANGED dataVars

\* verify_otp, lines 193-196: entry = _otp_store.get(phone_number)
Get(T) ==
    LET th == threads[T] IN
    /\ th.pc = "get"
    /\ threads' = [threads EXCEPT ![T] =
                     IF HasKey(otp_store, th.phone)
                       THEN [th EXCEPT !.pc = "check", !.entry = Entry(otp_store, th.phone)]
                     ELSE Done(th, "False")]
    /\ UNCHANGED otpVars
    /\ UNCHANGED gateVars
    /\ UNCHANGED cookVars
    /\ UNCHANGED dataVars

\* lines 197 and 201-203: the clock is read, the entry in hand is judged
Check(T) ==
    LET th == threads[T] IN
    /\ th.pc = "check"
    /\ threads' = [threads EXCEPT ![T] =
                     IF th.entry.expires_at <= now THEN [th EXCEPT !.pc = "del expired"]
                     ELSE IF th.entry.code # strip(th.code) THEN Done(th, "False")
                     ELSE [th EXCEPT !.pc = "del"]]
    /\ UNCHANGED otpVars
    /\ UNCHANGED gateVars
    /\ UNCHANGED cookVars
    /\ UNCHANGED dataVars

\* lines 198-200 and 204-206: del _otp_store[phone_number], and the return
Del(T) ==
    LET th == threads[T]
        d == del_otp(otp_store, th.phone)
    IN
    /\ th.pc \in {"del expired", "del"}
    /\ otp_store' = d.store
    /\ threads' = [threads EXCEPT ![T] =
                     IF d.raised THEN Done(th, "KeyError")
                     ELSE IF th.pc = "del" THEN Done(th, "True")
                     ELSE Done(th, "False")]
    /\ UNCHANGED <<now, sending, env, delivery, follow, watch, last, issued, solo>>
    /\ UNCHANGED gateVars
    /\ UNCHANGED cookVars
    /\ UNCHANGED dataVars

\* send_otp, lines 128-184: the record is written; what follows does not
\* touch the store
Write(T) ==
    LET th == threads[T] IN
    /\ th.pc = "write"
    /\ \E code \in generate_otp, gw \in {"returns", "raises"} :
        LET outcome == send_otp_dispatch(env, gw).outcome IN
        /\ otp_store' =
              send_otp_exit_store(
                  SetItem(otp_store, th.phone, code, now + OTP_TTL_SECONDS),
                  th.phone, outcome)
        /\ threads' = [threads EXCEPT ![T] = Done([th EXCEPT !.code = code], outcome)]
    /\ UNCHANGED <<now, sending, env, delivery, follow, watch, last, issued, solo>>
    /\ UNCHANGED gateVars
    /\ UNCHANGED cookVars
    /\ UNCHANGED dataVars

Next ==
    \/ Tick
    \/ \E p \in Subjects : SendOtpStore(p)
    \/ \E p \in Subjects : SendOtpDispatch(p)
    \/ \E p \in Subjects : VerifyOtp(p)

Init == InitOtp("issue", {PlainEnv}) /\ InitGateIdle /\ InitCooks /\ InitThreads /\ InitData
Spec == Init /\ [][Next]_vars

\* the subjects differ in name only: the longer histories follow the first
InitTwice ==
    InitOtp("twice", {PlainEnv}) /\ watch = "+1555" /\ InitGateIdle /\ InitCooks /\ InitThreads /\ InitData
SpecTwice == InitTwice /\ [][Next]_vars

InitRetry ==
    InitOtp("retry", {PlainEnv}) /\ watch = "+1555" /\ InitGateIdle /\ InitCooks /\ InitThreads /\ InitData
SpecRetry == InitRetry /\ [][Next]_vars

InitSolo == InitOtp("solo", {PlainEnv}) /\ InitGateIdle /\ InitCooks /\ InitThreads /\ InitData
SpecSolo == InitSolo /\ [][Next]_vars

InitSweep == InitOtp("sweep", {PlainEnv}) /\ InitGateIdle /\ InitCooks /\ InitThreads /\ InitData
SpecSweep == InitSweep /\ [][Next]_vars

\* the history keeps the last call whatever its subject
InitCalls == InitOtp("calls", {PlainEnv}) /\ InitGateIdle /\ InitCooks /\ InitThreads /\ InitData
SpecCalls == InitCalls /\ [][Next]_vars

\* the calls of one subject, in every deployment
NextWatch ==
    \/ Tick
    \/ SendOtpStore(watch)
    \/ SendOtpDispatch(watch)
    \/ VerifyOtp(watch)

InitDelivery == InitOtp("delivery", Envs) /\ InitGateIdle /\ InitCooks /\ InitThreads /\ InitData
SpecDelivery == InitDelivery /\ [][NextWatch]_vars

NextGate ==
    \/ get_user_groceries
    \/ update_profile
    \/ update_onboarding_data
    \/ get_user
    \/ get_onboarding_status
    \/ DirectoryChange

\* the calls of the cook service
NextCook ==
    \/ AddCook
    \/ GetCook
    \/ UpdateCook
    \/ DeleteCook

InitCook ==
    InitOtp("issue", {PlainEnv}) /\ watch = "+1555" /\ InitGateIdle /\ InitCooks /\ InitThreads /\ InitData
SpecCook == InitCook /\ [][NextCook]_vars

\* the requests for reference data
NextData ==
    \/ GetGoals
    \/ GetOnboarding
    \/ \E t \in Tasks : FetchTable(t)
    \/ Gather

InitPages ==
    InitOtp("issue", {PlainEnv}) /\ watch = "+1555" /\ InitGateIdle /\ InitCooks /\ InitThreads /\ InitData
SpecData == InitPages /\ [][NextData]_vars

\* the grouping of the groceries, over every answer of the junction query
NextGrocery == GroupGroceries

InitGrocery ==
    /\ InitOtp("issue", {PlainEnv}) /\ watch = "+1555" /\ InitGateIdle /\ InitCooks /\ InitThreads
    /\ fetches = NoFetches
    /\ \E junction \in Junctions : reply = [NoReply EXCEPT !.answered = junction]
SpecGrocery == InitGrocery /\ [][NextGrocery]_vars

\* the calls of the OTP service on parallel threads
NextThreads ==
    \/ Tick
    \/ \E T \in Threads : CallVerify(T)
    \/ \E T \in Threads : CallSend(T)
    \/ \E T \in Threads : Return(T)
    \/ \E T \in Threads : ScanBegin(T)
    \/ \E T \in Threads : ScanEnd(T)
    \/ \E T \in Threads : Purge(T)
    \/ \E T \in Threads : Get(T)
    \/ \E T \in Threads : Check(T)
    \/ \E T \in Threads : Del(T)
    \/ \E T \in Threads : Write(T)

InitParallel ==
    InitOtp("issue", {PlainEnv}) /\ watch = "+1555" /\ InitGateIdle /\ InitCooks /\ InitThreads /\ InitData
SpecThreads == InitParallel /\ [][NextThreads]_vars

\* calls of verify_otp alone, one for each thread, on the store that a
\* send_otp for watch at time 0 has left
NextVerifiers ==
    \/ Tick
    \/ \E T \in Threads : CallVerify(T)
    \/ \E T \in Threads : ScanBegin(T)
    \/ \E T \in Threads : ScanEnd(T)
    \/ \E T \in Threads : Purge(T)
    \/ \E T \in Threads : Get(T)
    \/ \E T \in Threads : Check(T)
    \/ \E T \in Threads : Del(T)

InitVerifiers ==
    /\ now = 0
    /\ watch = "+1555"
    /\ \E code \in generate_otp :
        otp_store = SetItem({}, watch, code, 0 + OTP_TTL_SECONDS)
    /\ sending = {}
    /\ env = PlainEnv
    /\ delivery = NoDelivery
    /\ follow = "issue"
    /\ last = NoCall
    /\ issued = NotIssued
    /\ solo = {}
    /\ InitGateIdle /\ InitCooks /\ InitThreads /\ InitData
SpecVerifiers == InitVerifiers /\ [][NextVerifiers]_vars

InitRequests ==
    InitOtp("issue", {PlainEnv}) /\ watch = "+1555" /\ InitGate /\ InitCooks /\ InitThreads /\ InitData
SpecGate == InitRequests /\ [][NextGate]_vars

(***************************************************************************)
(* The OTP lifecycle.  The formulas speak of the last call (last), of the  *)
(* history before it (last.was) and of the store it left (otp_store).      *)
(***************************************************************************)
VerifiedWatch == last.op = "verify_otp" /\ last.phone = watch
ExpiryOf(h) == h.at + OTP_TTL_SECONDS
EntryOf(p, h) == [phone |-> p, code |-> h.code, expires_at |-> ExpiryOf(h)]

\* C1: after send_otp(S) stored code c, the first verify_otp(S, c) that runs
\* before the expiry (issue time + OTP_TTL_SECONDS) returns true and removes
\* the record; every later verify_otp(S, c) with no send_otp(S) in between
\* returns false.
C1_CorrectCodeOnce ==
    (VerifiedWatch /\ last.was.sent /\ last.code = last.was.code) =>
        /\ last.was.consumed => last.result = FALSE
        /\ (~last.was.consumed /\ last.t1 < ExpiryOf(last.was)) =>
              (last.result = TRUE /\ ~HasKey(otp_store, watch))

\* the second verification with the code that the first one consumed
C1_Witness ==
    /\ VerifiedWatch /\ last.was.sent /\ last.code = last.was.code
    /\ last.was.consumed /\ last.t1 < ExpiryOf(last.was)
    /\ last.result = FALSE

\* C3: verify_otp(S, c) called when the clock is at or past the expiry of
\* S's issuance returns false, also for the stored code, and leaves no record
\* of S in the store.
C3_ExpiredIsRejected ==
    (VerifiedWatch /\ last.was.sent /\ last.t0 >= ExpiryOf(last.was)) =>
        (last.result = FALSE /\ ~HasKey(otp_store, watch))

\* the issued, never consumed code submitted at the issuance's expiry
C3_Witness ==
    /\ VerifiedWatch /\ last.was.sent /\ ~last.was.consumed
    /\ last.t0 = ExpiryOf(last.was)
    /\ last.code = last.was.code
    /\ last.result = FALSE

\* C5: while no send_otp(S) has been made, verify_otp(S, c) returns false for
\* every candidate c and the store holds no record of S afterwards.
C5_NothingIssued ==
    (VerifiedWatch /\ ~last.was.sent) =>
        (last.result = FALSE /\ ~HasKey(otp_store, watch))

\* a subject without issuance submits the live code of another subject
C5_Witness ==
    /\ VerifiedWatch /\ ~last.was.sent
    /\ \E r \in otp_store : r.code = last.code /\ r.expires_at > last.t1

\* C6: the store holds at most one record per subject, and right after the
\* store write of send_otp(S) the record of S is the new code with the new
\* expiry, whatever record S had before.
C6_OneRecordPerSubject ==
    /\ \A r1, r2 \in otp_store : r1.phone = r2.phone => r1 = r2
    /\ (last.op = "send_otp" /\ last.phone = watch) =>
          {r \in otp_store : r.phone = watch}
              = {[phone |-> watch, code |-> last.code,
                  expires_at |-> last.t1 + OTP_TTL_SECONDS]}

\* an issuance over a live record of the same subject holding another code
C6_Witness ==
    /\ last.op = "send_otp" /\ last.phone = watch
    /\ last.was.sent /\ ~last.was.consumed /\ last.t0 < ExpiryOf(last.was)
    /\ last.was.code # last.code
    /\ Cardinality(otp_store) = 2

\* verify_otp(S, c1) after the issuance before the latest one stored c1
VerifiedPrevious ==
    VerifiedWatch /\ last.was.hasPrev /\ last.code = last.was.prev

\* C2 as stated: after a first send_otp(S) stored c1 and a second one stored
\* c2, verify_otp(S, c1) returns false.
C2_AsStated == VerifiedPrevious => last.result = FALSE

\* C2, amended: after a first send_otp(S) stored c1 and a second one stored
\* c2, verify_otp(S, c1) returns false when c2 differs from c1; when the
\* second draw gave the same digits, c1 is the live code and it is accepted
\* once, before the expiry of the second issuance.
C2_FirstCodeInvalidated ==
    VerifiedPrevious =>
        /\ last.was.prev # last.was.code => last.result = FALSE
        /\ (/\ last.was.prev = last.was.code
            /\ ~last.was.consumed
            /\ last.t1 < ExpiryOf(last.was)) => last.result = TRUE

\* the first code submitted while the second, different one is live
C2_Witness ==
    /\ VerifiedPrevious /\ last.was.prev # last.was.code
    /\ ~last.was.consumed /\ last.t1 < ExpiryOf(last.was)
    /\ last.result = FALSE
    /\ EntryOf(watch, last.was) \in otp_store

\* verify_otp(S, c) while the issued code of S is stored and unexpired
VerifiedLive ==
    /\ VerifiedWatch
    /\ last.was.sent /\ ~last.was.consumed /\ last.t1 < ExpiryOf(last.was)

\* C4 as stated: verify_otp(S, c) with c different from the stored, unexpired
\* code returns false and leaves the record of S unchanged.
C4_AsStated ==
    (VerifiedLive /\ last.code # last.was.code) =>
        (last.result = FALSE /\ EntryOf(watch, last.was) \in otp_store)

\* C4, amended: verify_otp(S, c) with a candidate c that, stripped of its
\* surrounding whitespace, differs from the stored, unexpired code returns
\* false and leaves the record of S (code and expiry) unchanged; after any
\* number of such attempts a verify_otp(S, c) whose stripped candidate is
\* the code, before the expiry, returns true.
C4_WrongCodeKeepsRecord ==
    /\ (VerifiedLive /\ strip(last.code) # last.was.code) =>
          (last.result = FALSE /\ EntryOf(watch, last.was) \in otp_store)
    /\ (VerifiedLive /\ strip(last.code) = last.was.code) => last.result = TRUE

\* the code accepted after MaxWrong failed attempts on the same issuance
C4_Witness ==
    /\ VerifiedLive /\ last.was.wrong = MaxWrong
    /\ last.code = last.was.code
    /\ last.result = TRUE

\* the records of p in store that are unexpired at time t
LiveOf(store, p, t) == {r \in store : r.phone = p /\ r.expires_at > t}

BearerWords == {Bearer, <<"b", "e", "a", "r", "e", "r">>, <<"B", "E", "A", "R", "E", "R">>}
Blanks == {<<" ">>, <<" ", " ">>, <<"\n">>}

\* the header is "<bearer> <token>", whitespace aside, with a token whose
\* signature verifies, that has not expired and whose subject claim is v
BearsTokenOf(h, v) ==
    /\ h.present
    /\ \E name \in TokenNames :
        /\ TokenTable[name].signed /\ ~TokenTable[name].expired
        /\ TokenTable[name].sub = v
        /\ \E word \in BearerWords, gap \in Blanks, pad \in Blanks \cup {<<>>} :
              h.text = word \o gap \o <<name>> \o pad

\* C8: get_current_user_id returns a subject id only when the request's token
\* was accepted by verify_access_token, its payload carries a non-empty sub
\* and get_user_by_id resolved that subject, and the id is that sub as a
\* string; in every other case it rejects and returns no id.
C8_GateAcceptsOnlyResolvedSubjects ==
    req.gate.ran =>
        LET accepted ==
              \E v \in {PyStr(u) : u \in UserIds} \cup {PyInt(u) : u \in UserIds} :
                  /\ BearsTokenOf(req.header, v)
                  /\ Str(v) \in req.accts /\ req.dir = "up"
                  /\ req.gate.user_id = Str(v)
        IN /\ req.gate.ok => accepted
           /\ ~accepted => (~req.gate.ok /\ req.gate.status = 401 /\ req.gate.user_id = "")

\* the gate returned the subject of a token whose sub claim is a number
C8_Witness ==
    /\ req.gate.ran /\ req.gate.ok
    /\ BearsTokenOf(req.header, PyInt("1"))
    /\ req.gate.user_id = "1"

\* C9: with authenticated subject A and path user_id B, verify_user_access
\* returns B when str(A) = str(B), and raises 403 Forbidden, so that the
\* handler does not run, when they differ.
C9_OwnerCheck ==
    (req.route = "GET /grocery/{user_id}" /\ req.gate.ok) =>
        /\ req.gate.user_id = req.path =>
              (req.owner_id = req.path /\ req.status # 403)
        /\ req.gate.user_id # req.path =>
              (req.owner_id = "" /\ req.status = 403 /\ req.acted_on = "")

\* a caller with a valid token asks for the groceries of another user
C9_Witness ==
    /\ req.route = "GET /grocery/{user_id}" /\ req.gate.ok
    /\ req.gate.user_id # req.path
    /\ req.status = 403

\* C10: on every route that takes a path user_id the handler reads or writes
\* that user's data only when the request bears a valid token whose subject
\* equals the path user_id.
C10_OnlyOwnResource ==
    req.acted_on # "" =>
        /\ req.acted_on = req.path
        /\ \E v \in {PyStr(req.path), PyInt(req.path)} : BearsTokenOf(req.header, v)

\* the positions of text at which a whitespace-separated part begins
PartStarts(text) ==
    {i \in 1..Len(text) :
        text[i] \notin Whitespace /\ (i = 1 \/ text[i - 1] \in Whitespace)}

\* the first whitespace-separated part of text, if it has one
FirstPart(text) ==
    LET i == CHOOSE k \in PartStarts(text) : \A m \in PartStarts(text) : k <= m
        j == CHOOSE k \in i..Len(text) :
                /\ \A m \in i..k : text[m] \notin Whitespace
                /\ (k = Len(text) \/ text[k + 1] \in Whitespace)
    IN SubSeq(text, i, j)

\* the header is present and has exactly two parts, the first one "bearer"
\* in any mix of cases
BearerHeader(h) ==
    /\ h.present
    /\ Cardinality(PartStarts(h.text)) = 2
    /\ FirstPart(h.text) \in BearerWords

\* C11: when the Authorization header is absent, or does not split into
\* exactly two whitespace-separated parts whose first part is "bearer"
\* (case-insensitive), get_current_user_id rejects with 401 and has called
\* neither verify_access_token nor the account lookup.
C11_RejectedBeforeVerification ==
    (req.gate.ran /\ ~BearerHeader(req.header)) =>
        /\ ~req.gate.ok /\ req.gate.status = 401 /\ req.status = 401
        /\ ~req.gate.verified /\ ~req.gate.looked_up

\* a token that would verify, sent under the scheme Basic
C11_Witness ==
    /\ req.gate.ran
    /\ req.header.present
    /\ req.header.text = <<"B", "a", "s", "i", "c", " ", "good2">>
    /\ req.path = "2" /\ "2" \in req.accts /\ req.dir = "up"
    /\ req.gate.status = 401

\* the header is "<bearer> <token>", whitespace aside, with the token name
BearsToken(h, name) ==
    /\ h.present
    /\ \E word \in BearerWords, gap \in Blanks, pad \in Blanks \cup {<<>>} :
          h.text = word \o gap \o <<name>> \o pad

\* verify_access_token raises for the token name: it is no token at all, its
\* signature does not verify, or it has expired
Refused(name) ==
    \/ name \notin TokenNames
    \/ ~TokenTable[name].signed
    \/ TokenTable[name].expired

\* C12: a bearer token that verify_access_token refuses, a correctly signed
\* but expired one among them, is rejected by get_current_user_id with 401
\* and "Invalid or expired token. Please login again."; the request is never
\* answered with a server error.
C12_RefusedTokenIs401 ==
    \A name \in TokenNames \cup {"garbage"} :
        (req.gate.ran /\ BearsToken(req.header, name) /\ Refused(name)) =>
            /\ ~req.gate.ok /\ req.gate.user_id = ""
            /\ req.gate.status = 401 /\ req.status = 401
            /\ req.gate.detail = "Invalid or expired token. Please login again."

\* the correctly signed, expired token of an existing account
C12_Witness ==
    /\ req.gate.ran
    /\ BearsToken(req.header, "expired1")
    /\ TokenTable["expired1"].signed /\ TokenTable["expired1"].expired
    /\ req.path = "1" /\ "1" \in req.accts /\ req.dir = "up"
    /\ req.status = 401

\* the subject claims that name a user
SubjectClaims == {PyStr(u) : u \in UserIds} \cup {PyInt(u) : u \in UserIds}

\* C13: when the token verifies and carries a subject, and the Account
\* Directory answers that no account exists for it, get_current_user_id
\* rejects with "User not found or deactivated." and returns no id.
C13_UnknownSubjectRejected ==
    \A v \in SubjectClaims :
        (/\ req.gate.ran
         /\ BearsTokenOf(req.header, v)
         /\ Str(v) \notin req.accts /\ req.dir = "up") =>
            /\ ~req.gate.ok /\ req.gate.user_id = "" /\ req.owner_id = ""
            /\ req.gate.status = 401
            /\ req.gate.detail = "User not found or deactivated."
            /\ req.acted_on = ""

\* the valid token of an account that was deactivated, asking for its own
\* groceries
C13_Witness ==
    /\ req.gate.ran
    /\ BearsTokenOf(req.header, PyStr("2"))
    /\ req.path = "2" /\ req.accts = {"1"} /\ req.dir = "up"
    /\ req.gate.looked_up
    /\ req.status = 401

\* the reason of the first stage of the gate that the header h does not
\* pass: header, format, token, subject claim, account
StageReason(h) ==
    IF ~h.present \/ h.text = <<>>
      THEN "Authorization header is required"
    ELSE IF ~BearerHeader(h)
      THEN "Invalid authorization format. Expected: Bearer <token>"
    ELSE IF \E name \in TokenNames \cup {"garbage"} : BearsToken(h, name) /\ Refused(name)
      THEN "Invalid or expired token. Please login again."
    ELSE IF BearsTokenOf(h, PyNone) \/ BearsTokenOf(h, PyStr(""))
      THEN "Invalid token: missing user identifier"
    ELSE "User not found or deactivated."

\* C14: every rejection by get_current_user_id carries the reason of the
\* stage that failed; "Invalid or expired token. Please login again." is
\* reported only for a token that verify_access_token refused, never for a
\* request whose token verified.
C14_ReasonOfFailedStage ==
    (req.gate.ran /\ ~req.gate.ok) =>
        /\ req.gate.detail = StageReason(req.header)
        /\ req.gate.detail = "Invalid or expired token. Please login again." =>
              \E name \in TokenNames \cup {"garbage"} :
                  BearsToken(req.header, name) /\ Refused(name)

(***************************************************************************)
(* The delivery of the code, over the last send_otp of watch (delivery).   *)
(***************************************************************************)
\* the ways in which send_otp fails after its store write
Failures ==
    {"ValueError: credentials", "ValueError: phone number", "ValueError: content sid",
     "gateway exception"}

\* the last send_otp(watch) stored the code of issued and then failed
Undelivered == delivery.call.outcome \in Failures /\ issued.sent

\* C15: when send_otp(S) fails after its store write (credentials, sender
\* number, template SID, or an exception of the gateway), the store is not
\* rolled back: until the expiry the record of S is the newly stored one and
\* no other, and verify_otp(S, new code) before the expiry returns true.
C15_FailedSendKeepsRecord ==
    /\ (Undelivered /\ ~issued.consumed /\ now < ExpiryOf(issued)) =>
          {r \in otp_store : r.phone = watch} = {EntryOf(watch, issued)}
    /\ (/\ VerifiedWatch /\ delivery.call.outcome \in Failures
        /\ last.was.sent /\ ~last.was.consumed
        /\ last.code = last.was.code
        /\ last.t1 < ExpiryOf(last.was)) => last.result = TRUE

\* the code of a send_otp that failed for want of credentials is accepted
C15_Witness ==
    /\ VerifiedWatch /\ delivery.call.outcome = "ValueError: credentials"
    /\ delivery.call.gateway_calls = 0
    /\ last.was.sent /\ last.code = last.was.code
    /\ last.result = TRUE

\* credentials and sender number are set, and the template SID, if set, is
\* well-formed
ValidConfig(e) == e.credentials /\ e.from_number /\ e.content_sid # "invalid"

\* a send_otp of watch has ended and none has begun since
Ended == delivery.call.outcome # "none"

\* C16: a send_otp call makes at most one messages.create call, and exactly
\* one when the configuration is valid; it is not repeated when it raises,
\* and what the gateway raises reaches the caller of send_otp.
C16_OneGatewayCall ==
    Ended =>
        /\ delivery.call.gateway_calls <= 1
        /\ ValidConfig(env) => delivery.call.gateway_calls = 1
        /\ (ValidConfig(env) /\ delivery.gateway = "raises") =>
              delivery.call.outcome = "gateway exception"
        /\ (ValidConfig(env) /\ delivery.gateway = "returns") =>
              delivery.call.outcome = "sent"

\* the gateway raised on the one call of a send_otp that uses a template
C16_Witness ==
    /\ Ended
    /\ ValidConfig(env) /\ env.content_sid = "valid"
    /\ delivery.gateway = "raises"
    /\ delivery.call.gateway_calls = 1

\* C17: when the Twilio credentials or the sender number are not configured,
\* send_otp fails with a ValueError and makes no gateway call and no Slack
\* post; without credentials the error is the one of the credential check,
\* whether or not a sender number is configured.
C17_ConfigurationError ==
    Ended =>
        /\ ~env.credentials =>
              delivery.call = Dispatched("ValueError: credentials", 0, 0)
        /\ (env.credentials /\ ~env.from_number) =>
              delivery.call = Dispatched("ValueError: phone number", 0, 0)

\* neither credentials nor sender number, with a Slack webhook configured
C17_Witness ==
    /\ Ended
    /\ ~env.credentials /\ ~env.from_number /\ env.slack
    /\ delivery.gateway = "returns"
    /\ delivery.call.slack_posts = 0 /\ delivery.call.gateway_calls = 0

\* C18: a verify_otp(S, c) that starts after send_otp(S) wrote its record,
\* whether that send_otp has returned or is still at the gateway, is judged
\* against the newly stored code: before the expiry it returns true exactly
\* when c, stripped, is the new code, and false for the code that the new
\* one replaced.
C18_VerifyObservesIssuance ==
    (VerifiedWatch /\ last.was.sent /\ ~last.was.consumed
       /\ last.t1 < ExpiryOf(last.was)) =>
        /\ last.result = (strip(last.code) = last.was.code)
        /\ (last.was.hasPrev /\ last.was.prev # last.was.code
              /\ last.code = last.was.prev) => last.result = FALSE

\* the new code is accepted while the send_otp that replaced another code
\* with it is still at the gateway
C18_Witness ==
    /\ VerifiedWatch /\ watch \in sending
    /\ last.was.hasPrev /\ last.was.prev # last.was.code
    /\ last.code = last.was.code
    /\ last.result = TRUE

\* C19: every verify_otp and every send_otp call first sweeps the store, so
\* that when the call returns the store holds no record, of any subject,
\* whose expires_at is at or before the time of the sweep.
C19_SweepFirst ==
    (last.op \in {"send_otp", "verify_otp"} /\ last.phone = watch) =>
        \A r \in otp_store : r.expires_at > last.t0

\* a verify_otp that found the records of both subjects expired and left
\* the store empty
C19_Witness ==
    /\ VerifiedWatch
    /\ last.stale = Cardinality(Subjects)
    /\ otp_store = {}

(***************************************************************************)
(* The cook service, over its last call (cook_call).                       *)
(***************************************************************************)
\* the last call was add_cook with a phone number, and the database answered
AddedCook ==
    /\ cook_call.op = "add_cook"
    /\ cook_call.cook_data.phone_number # Missing
    /\ cook_call.db = "ok"

\* the rows that had the phone number of the last call before it
SamePhoneBefore ==
    {r \in cook_call.before : r.phone_number = cook_call.cook_data.phone_number}

\* C20: add_cook(user, data) raises ValueError and inserts nothing when the
\* user already has a cook with that phone_number; when only other users
\* have a cook with that phone_number the call is accepted and inserts one
\* row, of that user and with that phone_number.
C20_DuplicatePhonePerUser ==
    AddedCook =>
        /\ (\E r \in SamePhoneBefore : r.user_id = cook_call.user_id) =>
              (cook_call.result = "ValueError" /\ cooks = cook_call.before)
        /\ (/\ SamePhoneBefore # {}
            /\ \A r \in SamePhoneBefore : r.user_id # cook_call.user_id
            /\ cook_call.cook_data.name # Missing) =>
              /\ cook_call.result = "row"
              /\ cook_call.row \notin cook_call.before
              /\ cooks = cook_call.before \cup {cook_call.row}
              /\ cook_call.row.user_id = cook_call.user_id
              /\ cook_call.row.phone_number = cook_call.cook_data.phone_number

\* user 2 adds a cook with the phone number of a cook of user 1 and then
\* has it refused the second time
C20_Witness ==
    /\ AddedCook /\ cook_call.user_id = "2"
    /\ cook_call.result = "ValueError"
    /\ \E r1, r2 \in cooks :
          /\ r1.user_id = "1" /\ r2.user_id = "2"
          /\ r1.phone_number = cook_call.cook_data.phone_number
          /\ r2.phone_number = cook_call.cook_data.phone_number
          /\ r1.id < r2.id

\* the last call was one of the calls that name a cook by its id
NamedCook == cook_call.op \in {"get_cook_by_id", "update_cook", "delete_cook"}

\* before the last call the cook it names existed and was the caller's
OwnedBefore ==
    \E r \in cook_call.before :
        r.id = cook_call.cook_id /\ r.user_id = cook_call.user_id

\* C21: get_cook_by_id, update_cook and delete_cook raise ValueError
\* "Cook not found" and leave the table unchanged when the cook_id does not
\* exist or belongs to another user than the user_id passed; the row a call
\* returns, changes or deletes is the row of that id and of that user.
C21_OwnerOnly ==
    NamedCook =>
        /\ (cook_call.db = "ok" /\ ~OwnedBefore) =>
              /\ cook_call.result = "ValueError: Cook not found"
              /\ cook_call.row = NoRow
              /\ cooks = cook_call.before
        /\ cook_call.row # NoRow =>
              (cook_call.row.id = cook_call.cook_id
                 /\ cook_call.row.user_id = cook_call.user_id)
        /\ \A r \in (cook_call.before \ cooks) \cup (cooks \ cook_call.before) :
              r.id = cook_call.cook_id /\ r.user_id = cook_call.user_id

\* user 2 tries to change the phone number of a cook of user 1
C21_Witness ==
    /\ cook_call.op = "update_cook" /\ cook_call.db = "ok"
    /\ cook_call.user_id = "2"
    /\ cook_call.update_data.phone_number \in CookPhones
    /\ \E r \in cook_call.before :
          /\ r.id = cook_call.cook_id /\ r.user_id = "1"
          /\ r.phone_number # cook_call.update_data.phone_number
    /\ cook_call.result = "ValueError: Cook not found"

(***************************************************************************)
(* The reference data, over the last request for it (reply).               *)
(***************************************************************************)
\* C22: GET /onboarding/goals is served without authentication: whenever the
\* query succeeds the response is 200 with success true and the goals that
\* the query answered, whatever the Authorization header, also without one,
\* and the token gate is not run.
C22_GoalsWithoutToken ==
    (reply.route = "GET /onboarding/goals" /\ reply.db = "ok") =>
        /\ ~reply.gate.ran
        /\ reply.status = 200 /\ reply.success
        /\ Len(reply.data) = Len(reply.answered)
        /\ \A i \in 1..Len(reply.answered) :
              /\ reply.data[i].id = reply.answered[i].id
              /\ reply.data[i].name = reply.answered[i].name

\* a request without Authorization header is answered with both goals
C22_Witness ==
    /\ reply.route = "GET /onboarding/goals" /\ reply.db = "ok"
    /\ ~reply.header.present
    /\ Len(reply.data) = 2
    /\ reply.status = 200

(***************************************************************************)
(* The candidate of verify_otp.                                            *)
(***************************************************************************)
\* the runs of whitespace around the candidates of the model
Pads == {<<>>, <<" ">>, <<"\n">>, <<"\t">>}

\* cand is code with whitespace before or after it, or neither
IsPadded(cand, code) == \E pre \in Pads, post \in Pads : cand = pre \o code \o post

\* cand is empty or whitespace only
IsBlank(cand) == \A i \in 1..Len(cand) : cand[i] \in Whitespace

\* C23: verify_otp compares the stored code with the candidate stripped of
\* its surrounding whitespace: for a live record the result is true exactly
\* when the candidate is the stored code, padded with whitespace or not; an
\* empty or whitespace-only candidate returns false in every store state.
C23_StrippedCandidate ==
    /\ VerifiedLive => (last.result = IsPadded(last.code, last.was.code))
    /\ (VerifiedWatch /\ IsBlank(last.code)) => last.result = FALSE

\* the live code is accepted with a blank before it and a newline after it
C23_Witness ==
    /\ VerifiedLive
    /\ last.code = <<" ">> \o last.was.code \o <<"\n">>
    /\ last.result = TRUE
    /\ ~HasKey(otp_store, watch)

(***************************************************************************)
(* The order of the checks of the gate.                                    *)
(***************************************************************************)
\* the header bears a token that verifies and whose subject claim is v
Verifies(h) == \E name \in TokenNames : BearsToken(h, name) /\ ~Refused(name)
SubjectOf(h) ==
    TokenTable[CHOOSE name \in TokenNames : BearsToken(h, name) /\ ~Refused(name)].sub

\* C24: the gate checks, in this order, that the header is present, its
\* shape, the token, the subject claim and the account, and the first check
\* that fails rejects the request: the token is verified only for a header
\* of the right shape, the account is looked up only for a token that
\* verified and carries a subject, and verify_user_access compares the ids
\* only when the gate returned a subject, so that a request that does not
\* pass the gate is answered 401, never 403, whatever user id it asks for.
C24_OrderOfChecks ==
    req.gate.ran =>
        /\ (~req.header.present \/ req.header.text = <<>>) =>
              req.gate.detail = "Authorization header is required"
        /\ (req.header.present /\ req.header.text # <<>> /\ ~BearerHeader(req.header)) =>
              req.gate.detail = "Invalid authorization format. Expected: Bearer <token>"
        /\ req.gate.verified = BearerHeader(req.header)
        /\ (BearerHeader(req.header) /\ ~Verifies(req.header)) =>
              req.gate.detail = "Invalid or expired token. Please login again."
        /\ (Verifies(req.header) /\ SubjectOf(req.header) \in {PyNone, PyStr("")}) =>
              req.gate.detail = "Invalid token: missing user identifier"
        /\ req.gate.looked_up =
              (Verifies(req.header) /\ SubjectOf(req.header) \notin {PyNone, PyStr("")})
        /\ ~req.gate.ok =>
              (req.gate.status = 401 /\ req.status = 401 /\ req.owner_id = "")
        /\ req.status = 403 => (req.gate.ok /\ req.gate.user_id # req.path)

\* a token of user 2 that does not verify, sent for the groceries of user 1
C24_Witness ==
    /\ req.gate.ran
    /\ BearsToken(req.header, "forged2") /\ Refused("forged2")
    /\ req.path = "1" /\ req.accts = UserIds /\ req.dir = "up"
    /\ req.status = 401

(***************************************************************************)
(* GET /onboarding.                                                        *)
(***************************************************************************)
\* C25: GET /onboarding answers success with the nine lists only when each of
\* the nine fetches succeeded, every key then holding the rows of its own
\* table without created_at, in whatever order the fetches ended; when a
\* fetch failed the answer is a 500 that carries no data of the others.
C25_NoPartialSuccess ==
    reply.route = "GET /onboarding" =>
        /\ reply.success = (\A t \in Tasks : reply.answered[t].state = "done")
        /\ reply.success =>
              /\ reply.status = 200
              /\ DOMAIN reply.data = {Keys[t] : t \in Tasks}
              /\ \A t \in Tasks :
                    reply.data[Keys[t]] = remove_created_at(TableRows(Tables[t]))
        /\ ~reply.success =>
              /\ reply.status = 500
              /\ reply.data = <<>>

\* all nine succeeded, one of them ending before a task submitted earlier
C25_Witness ==
    reply.route = "GET /onboarding" /\ reply.success /\ reply.overtaken

\* eight fetches had their rows when the ninth failed
C25_WitnessFailure ==
    /\ reply.route = "GET /onboarding" /\ reply.status = 500
    /\ Cardinality({t \in Tasks : reply.answered[t].state = "done"}) = Len(Tables) - 1

(***************************************************************************)
(* The groceries of GET /grocery/{user_id}.                                *)
(***************************************************************************)
\* the places <<group, position>> of the answer that hold grocery id
PlacesOf(id) ==
    LET by_type == reply.data.grocery_items_by_type IN
    {pl \in UNION {{<<k, i>> : i \in 1..Len(by_type[k])} : k \in DOMAIN by_type} :
        by_type[pl[1]][pl[2]].id = id}

\* the junction rows that carry a grocery item, and those of grocery id
Referring == SelectSeq(reply.answered, LAMBDA row : row.grocery_items # NoRecord)
MealItemsOf(id) ==
    LET rows == SelectSeq(Referring, LAMBDA row : row.grocery_items.id = id) IN
    [i \in 1..Len(rows) |-> rows[i].meal_item_id]

\* C26: in the answer built from the junction rows every grocery id that a
\* row carries appears exactly once, in the group named after its type or
\* in "Uncategorized" when it has no type, with one meal item for each
\* junction row that referred to it; rows without a grocery item add nothing.
C26_GroupedOnce ==
    reply.route = "GET /grocery/{user_id}" =>
        LET by_type == reply.data.grocery_items_by_type
            ids == {Referring[i].grocery_items.id : i \in 1..Len(Referring)}
        IN /\ \A id \in ids :
                /\ Cardinality(PlacesOf(id)) = 1
                /\ \A pl \in PlacesOf(id) :
                     LET item == CHOOSE g \in GroceryItems : g.id = id IN
                     /\ pl[1] = IF item.grocery_types = NoRecord THEN "Uncategorized"
                                ELSE Str(item.grocery_types.name)
                     /\ by_type[pl[1]][pl[2]].meal_items = MealItemsOf(id)
           /\ \A k \in DOMAIN by_type :
                /\ Len(by_type[k]) > 0
                /\ \A i \in 1..Len(by_type[k]) : by_type[k][i].id \in ids

\* a row without grocery item, and two rows for one grocery with no type
C26_Witness ==
    /\ reply.route = "GET /grocery/{user_id}"
    /\ Len(reply.answered) = 3 /\ Len(Referring) = 2
    /\ "Uncategorized" \in DOMAIN reply.data.grocery_items_by_type
    /\ Len(reply.data.grocery_items_by_type["Uncategorized"][1].meal_items) = 2

(***************************************************************************)
(* Parallel threads.                                                       *)
(***************************************************************************)
\* the threads whose verify_otp returned true
Approved == {T \in Threads : threads[T].pc = "done" /\ threads[T].result = "True"}

\* the threads whose verify_otp found the code right and the record unexpired
PassedComparison ==
    {T \in Threads : threads[T].op = "verify_otp"
                     /\ \/ threads[T].pc = "del"
                        \/ threads[T].pc = "done" /\ threads[T].ended = "del"}

\* C27: of two verify_otp calls for one subject that run on parallel threads
\* against one issued record, their steps interleaved in any order, at most
\* one returns true, even when both hold the right code before it expires.
C27_OneApproval == Cardinality(Approved) <= 1

\* both calls read the record and found the code right; one returned true
C27_Witness ==
    /\ PassedComparison = Threads
    /\ Cardinality(Approved) = 1
    /\ \A T \in Threads : threads[T].pc = "done" /\ threads[T].phone = watch

\* C28: on parallel threads every call of verify_otp ends by returning
\* true or false, whatever the other calls do to the store meanwhile.
C28_VerifyReturns ==
    \A T \in Threads :
        (threads[T].pc = "done" /\ threads[T].op = "verify_otp") =>
            threads[T].result \in {"True", "False"}

(***************************************************************************)
(* The life of a record, over the steps of SpecCalls: last changes with    *)
(* every call that does anything, and with nothing else.                   *)
(***************************************************************************)
\* C29: a record whose expiry has passed is removed by the next send_otp or
\* verify_otp call, whatever the subject of the call; a record leaves the
\* store only expired, or by a successful verification of its subject, or
\* replaced by a new issuance for its subject; and a step that is no call
\* (the clock advancing, a send_otp waiting on the gateway) leaves the
\* store as it is, so that an expired record stays until a call comes.
C29_RemovedByNextCall ==
    [][/\ last' # last =>
            \A r \in otp_store : r.expires_at <= now => r \notin otp_store'
       /\ \A r \in otp_store \ otp_store' :
            \/ r.expires_at <= now'
            \/ /\ last' # last /\ last'.op = "verify_otp" /\ last'.phone = r.phone
               /\ last'.result /\ strip(last'.code) = r.code
            \/ /\ last' # last /\ last'.op = "send_otp" /\ last'.phone = r.phone
               /\ HasKey(otp_store', r.phone)
       /\ last' = last => otp_store' = otp_store]_vars

\* a call for the other subject found the records of both subjects expired
\* and left the store empty
C29_Witness ==
    /\ follow = "calls"
    /\ last.op \in {"send_otp", "verify_otp"} /\ last.phone # watch
    /\ last.stale = Cardinality(Subjects)
    /\ \A r \in otp_store : r.phone = last.phone /\ r.expires_at > last.t0

\* an expired record that is still in the store, no call having come
C29_WitnessIdle ==
    /\ follow = "calls"
    /\ \E r \in otp_store : r.expires_at < now /\ last.t1 < r.expires_at

(***************************************************************************)
(* The phone numbers of the cooks of a user.                               *)
(***************************************************************************)
\* C30: after any sequence of add_cook, update_cook and delete_cook calls no
\* user has two cooks with the same phone_number.
C30_NoDuplicatePhone ==
    \A r1 \in cooks, r2 \in cooks :
        (r1.user_id = r2.user_id /\ r1.phone_number = r2.phone_number) => r1.id = r2.id

====
